---- MODULE Spec2Model ----
(***************************************************************************)
(* Donation Media Hub: the queue manager, the event channel, the player    *)
(* controller, the acquisition (download) worker and the feed pollers.     *)
(*                                                                         *)
(* Time stamps are counted in half seconds, so that the 2.0 s soft-dedupe  *)
(* window and a distance of 1.5 s are both integers.  A file of the temp   *)
(* directory is the pair <<sanitized title, suffix>>: suffix 0 is          *)
(* "<title>.mp3", suffix n+1 is "<title>__n.mp3".  None is the string      *)
(* "none" for ids and the empty tuple for paths.                           *)
(***************************************************************************)
EXTENDS Integers, Sequences, FiniteSets, TLC

\* ------------------------------------------------------------------ bounds
\* capacity of the queue (config.QUEUE_LIMIT; 50 in main_full.py)
QUEUE_LIMIT == 2
\* events the channel holds at once (thread_queue.Queue is unbounded)
MaxEvents == 3
\* commands the user gives in one run
MaxCommands == 2
\* tracks in a queue.json document
MaxDoc == 2
\* poll loop threads started in one run of the pollers alone
MaxLoops == 3

\* --------------------------------------------------------------- constants
\* 2.0 seconds, in half seconds
DEDUPE_WINDOW == 4

None == "none"
NoPath == <<>>

\* ---------------------------------------------------------- the two feeds
\* The media the two feeds can hold.  key is the DA media_id, or the DX
\* timestamp (which is also the track's created_ts).  DX:3 has the url of
\* DA:1 and is 1.5 s younger; DA:2 has it too and is 5 s younger.
Candidates ==
  { [track_id |-> "DA:1", source |-> "DA", key |-> 1, created_ts |-> 0,
     url |-> "u1", title |-> "a_b"],
    [track_id |-> "DX:3", source |-> "DX", key |-> 3, created_ts |-> 3,
     url |-> "u1", title |-> "x"],
    [track_id |-> "DX:4", source |-> "DX", key |-> 4, created_ts |-> 4,
     url |-> "u2", title |-> "a:b"],
    [track_id |-> "DA:2", source |-> "DA", key |-> 2, created_ts |-> 10,
     url |-> "u1", title |-> "a_b"],
    [track_id |-> "DX:18", source |-> "DX", key |-> 18, created_ts |-> 18,
     url |-> "u3", title |-> "y"] }

AllIds == {it.track_id : it \in Candidates}
ItemOf(id) == CHOOSE it \in Candidates : it.track_id = id

\* models.Track(...) as the pollers build it: status queued, nothing else set
Track(it) ==
  [track_id |-> it.track_id, created_ts |-> it.created_ts, url |-> it.url,
   title |-> it.title, status |-> "queued", local_path |-> NoPath,
   error |-> ""]

\* ------------------------------------------------------------------- state
VARIABLES
  tracks,            \* QueueManager.tracks
  current_track_id,  \* QueueManager.current_track_id
  disk,              \* the *.mp3 files present in TEMP_DIR
  paused,            \* AudioPlayer._paused
  busy,              \* the mixer has a stream that has not ended
  fresh,             \* less than 1.2 s since _last_play_start_ts
  ready,             \* AudioPlayer._ready
  download_mode,     \* PlayerController._download_mode
  da_token,          \* PlayerController._da_token is not blank
  dx_token,          \* PlayerController._dx_token is not blank
  closing,           \* PlayerController._closing
  stop_event,        \* Pollers._stop_event is set
  loops,             \* per feed, 1 if a poll loop of it is alive
  cursor,            \* last_media_id (DA), last_timestamp (DX, 0 is None)
  ui_events,         \* PlayerController.ui_events
  draining,          \* process_ui_events is inside its while loop
  dirty,             \* the local dirty of the running process_ui_events
  wpc,               \* the download loop's position
  wt,                \* the download loop's remaining targets
  wout,              \* the file the download in progress will write
  threads,           \* the poll loop threads started so far (Pollers alone)
  commands,          \* commands the user has given so far
  driver,            \* the kind of run: the application on a first run,
                     \* restarted on a saved queue or left to play ("listener"),
                     \* or a caller of one class alone ("caller", "pollers",
                     \* "credentials")
  lastOp             \* the handler that ran last, and what it reported

vars == <<tracks, current_track_id, disk, paused, busy, fresh, ready,
          download_mode, da_token, dx_token, closing, stop_event, loops,
          cursor, ui_events, draining, dirty, wpc, wt, wout, threads,
          commands,
          driver, lastOp>>

\* what the feeds report while the application runs: two items, a third in
\* a session in which the user only listens (the same url again, ten seconds
\* or three half seconds after the first), and two of each feed for the
\* pollers alone
FeedItems ==
  {it \in Candidates :
     it.track_id \in {"DA:1", "DX:4"}
                       \cup (IF driver \in {"listener", "pollers", "external"}
                             THEN {"DA:2"} ELSE {})
                       \cup (IF driver = "duplicates" THEN {"DX:3"} ELSE {})
                       \cup (IF driver = "pollers" THEN {"DX:18"} ELSE {})}

\* config.QUEUE_LIMIT; one more in a listening session, so that a track can
\* fall out of the window around the current one
Limit ==
  IF driver \in {"listener", "external"} THEN QUEUE_LIMIT + 1 ELSE QUEUE_LIMIT

\* ------------------------------------------------------------ small helpers
Min(S) == CHOOSE x \in S : \A y \in S : x <= y
Max(S) == CHOOSE x \in S : \A y \in S : x >= y
Abs(x) == IF x < 0 THEN -x ELSE x
RemoveAt(s, i) == SubSeq(s, 1, i - 1) \o SubSeq(s, i + 1, Len(s))
Ids(ts) == {ts[i].track_id : i \in 1..Len(ts)}

\* services/youtube.sanitize_filename on the titles of Candidates
sanitize_filename(name) == IF name = "a:b" THEN "a_b" ELSE name

\* ------------------------------------------------------------ QueueManager
\* The operators below take and return the record c of everything a
\* controller handler can change:
\*   tracks, cur, disk, paused, busy, fresh, wt, text, opened
\* (text is the last on_status_text of the handler, "" if none; opened are
\* the urls the handler has passed to webbrowser.open, in order).

\* QueueManager.get: position of the first track with that id, 0 if none
get(ts, id) ==
  IF \E i \in 1..Len(ts) : ts[i].track_id = id
  THEN Min({i \in 1..Len(ts) : ts[i].track_id = id})
  ELSE 0

SortMutant(s) == s

\* QueueManager.sort: list.sort(key=created_ts), a stable sort
RECURSIVE sort(_)
sort(s) ==
  IF Len(s) <= 1 THEN s
  ELSE LET r == sort(SubSeq(s, 1, Len(s) - 1))
           x == s[Len(s)]
           k == Cardinality({i \in 1..Len(r) : r[i].created_ts <= x.created_ts})
       IN SubSeq(r, 1, k) \o <<x>> \o SubSeq(r, k + 1, Len(r))

EnsureCurrentMutant(c) == c

\* QueueManager._ensure_current
ensure_current(c) ==
  IF c.cur # None /\ get(c.tracks, c.cur) # 0 THEN c
  ELSE [c EXCEPT !.cur = IF Len(c.tracks) > 0 THEN c.tracks[1].track_id
                          ELSE None]

\* QueueManager.set_current
set_current(c, track_id) == ensure_current([c EXCEPT !.cur = track_id])

\* QueueManager.index_of_current, counted from 1 (0 is the code's -1)
index_of_current(c) == IF c.cur = None THEN 0 ELSE get(c.tracks, c.cur)

\* QueueManager.next_id
NextIdMutant(c) ==
  LET i == index_of_current(c) IN
  IF i = 0 THEN None
  ELSE IF i + 1 > Len(c.tracks) THEN c.tracks[1].track_id
  ELSE c.tracks[i + 1].track_id

\* QueueManager.next_id
next_id(c) ==
  LET i == index_of_current(c) IN
  IF i = 0 THEN None
  ELSE IF i + 1 > Len(c.tracks) THEN None
  ELSE c.tracks[i + 1].track_id

\* QueueManager.prev_id
prev_id(c) ==
  LET i == index_of_current(c) IN
  IF i <= 1 THEN None ELSE c.tracks[i - 1].track_id

\* The download loop holds Track objects, not ids.  A target is live while
\* its object is in the queue (its fields are then read from the queue);
\* when the object is removed, the target keeps the fields it had.
detach(targets, victim) ==
  [i \in 1..Len(targets) |->
     IF targets[i].live /\ targets[i].track_id = victim.track_id
     THEN [track_id |-> victim.track_id, live |-> FALSE,
           status |-> victim.status, local_path |-> victim.local_path]
     ELSE targets[i]]

RemovableMutant(keep_current, t) == t.status \notin {"playing", "paused"}

\* QueueManager._trim.removable
removable(keep_current, t) ==
  /\ ~(keep_current # None /\ t.track_id = keep_current)
  /\ t.status \notin {"playing", "paused"}

UnlinkMutant(files, path) == files

\* Path(victim.local_path).unlink(missing_ok=True)
unlink(files, path) == IF path # NoPath THEN files \ {path} ELSE files

\* QueueManager._trim: the while loop
RECURSIVE trim_loop(_, _)
trim_loop(c, keep_current) ==
  IF Len(c.tracks) <= Limit THEN c
  ELSE LET R == {i \in 1..Len(c.tracks) : removable(keep_current, c.tracks[i])}
       IN IF R = {} THEN c
          ELSE LET idx == Min(R)
                   victim == c.tracks[idx]
               IN trim_loop([c EXCEPT !.tracks = RemoveAt(@, idx),
                                      !.disk = unlink(@, victim.local_path),
                                      !.wt = detach(@, victim)],
                            keep_current)

TrimMutant(c) == c

\* QueueManager._trim
trim(c) ==
  IF Len(c.tracks) <= Limit THEN c
  ELSE trim_loop([c EXCEPT !.tracks = sort(@)], c.cur)

\* QueueManager.append_if_new: the two tests that reject the candidate
IsDuplicateMutant(ts, track) ==
  \E i \in 1..Len(ts) : ts[i].track_id = track.track_id

\* QueueManager.append_if_new, the two tests that reject a candidate
is_duplicate(ts, track) ==
  \/ \E i \in 1..Len(ts) : ts[i].track_id = track.track_id
  \/ \E i \in 1..Len(ts) :
       /\ ts[i].url = track.url
       /\ Abs(ts[i].created_ts - track.created_ts) <= DEDUPE_WINDOW

AppendIfNewMutant(c, track) ==
  IF is_duplicate(c.tracks, track) THEN [c |-> c, ret |-> TRUE]
  ELSE [c |-> ensure_current(trim([c EXCEPT !.tracks = sort(Append(@, track))])),
        ret |-> TRUE]

\* QueueManager.append_if_new: c is the queue after the call, ret what the
\* call returns
append_if_new(c, track) ==
  IF is_duplicate(c.tracks, track) THEN [c |-> c, ret |-> FALSE]
  ELSE [c |-> ensure_current(trim([c EXCEPT !.tracks = sort(Append(@, track))])),
        ret |-> TRUE]

ClearMutant(c) ==
  [c EXCEPT !.wt = [i \in 1..Len(c.wt) |->
                      IF c.wt[i].live
                      THEN LET t == c.tracks[get(c.tracks, c.wt[i].track_id)]
                           IN [track_id |-> t.track_id, live |-> FALSE,
                               status |-> t.status,
                               local_path |-> t.local_path]
                      ELSE c.wt[i]],
            !.tracks = <<>>,
            !.cur = None]

\* QueueManager.clear
clear(c) ==
  [c EXCEPT !.disk = @ \ {c.tracks[i].local_path : i \in 1..Len(c.tracks)},
            !.wt = [i \in 1..Len(c.wt) |->
                      IF c.wt[i].live
                      THEN LET t == c.tracks[get(c.tracks, c.wt[i].track_id)]
                           IN [track_id |-> t.track_id, live |-> FALSE,
                               status |-> t.status,
                               local_path |-> t.local_path]
                      ELSE c.wt[i]],
            !.tracks = <<>>,
            !.cur = None]

\* ------------------------------------------------------------- AudioPlayer
\* AudioPlayer.is_paused
is_paused(c) == c.paused

\* AudioPlayer.is_playing: mixer.music.get_busy(), which pygame 2 reports
\* False while the music is paused
is_playing(c) == ready /\ c.busy /\ ~c.paused

\* AudioPlayer.stop
player_stop(c) ==
  IF ~ready THEN c ELSE [c EXCEPT !.busy = FALSE, !.paused = FALSE]

\* AudioPlayer.pause
player_pause(c) == IF ~ready THEN c ELSE [c EXCEPT !.paused = TRUE]

\* AudioPlayer.resume
player_resume(c) == IF ~ready THEN c ELSE [c EXCEPT !.paused = FALSE]

\* -------------------------------------------------------- PlayerController
\* PlayerController.STATUS_ORDER
STATUS_ORDER(st) ==
  CASE st = "new" -> 0
    [] st \in {"ready", "queued"} -> 1
    [] st = "downloading" -> 2
    [] st \in {"playing", "paused"} -> 3
    [] st \in {"played", "skipped", "failed"} -> 4
    [] OTHER -> 0

\* PlayerController._normalize_status
normalize_status(st) == IF st = "ready" THEN "queued" ELSE st

\* PlayerController._status_rank
status_rank(st) == STATUS_ORDER(st)

\* PlayerController._set_current (its saves and view callbacks change
\* nothing that is modelled)
ctl_set_current(c, track_id) ==
  IF track_id = None THEN c ELSE set_current(c, track_id)

\* Path(t.local_path).exists()
exists(c, path) == path # NoPath /\ path \in c.disk

CleanupMutant(c) ==
  LET idx == index_of_current(c)
      keep == {c.tracks[i].local_path :
                 i \in {j \in 1..Len(c.tracks) : idx - 1 <= j /\ j <= idx + 1}}
  IN IF idx = 0 THEN c ELSE [c EXCEPT !.disk = @ \cap keep]

\* PlayerController._cleanup_temp_window, with Downloader.cleanup_keep
cleanup_temp_window(c) ==
  LET idx == index_of_current(c)
      n == Len(c.tracks)
      lo == IF idx - 1 < 1 THEN 1 ELSE idx - 1
      hi == IF idx + 1 > n THEN n ELSE idx + 1
      keep_ids == {c.tracks[i].track_id : i \in {j \in lo..hi :
                                            c.tracks[j].local_path # NoPath}}
      keep_paths == {c.tracks[i].local_path : i \in {j \in 1..n :
                        /\ c.tracks[j].track_id \in keep_ids
                        /\ c.tracks[j].local_path # NoPath}}
      left == c.disk \cap keep_paths
  IN IF idx = 0 THEN c
     ELSE [c EXCEPT !.disk = left,
                    !.tracks = [i \in 1..n |->
                       IF c.tracks[i].local_path # NoPath
                          /\ c.tracks[i].local_path \notin left
                       THEN [c.tracks[i] EXCEPT !.local_path = NoPath]
                       ELSE c.tracks[i]]]

\* play_current and next_track call each other.  play_fails says whether
\* AudioPlayer.play raises (the mixer cannot load the file).
RECURSIVE play_current(_, _, _)
RECURSIVE next_track(_, _, _)

PlayCurrentMutant(c, force, play_fails) ==
  LET i == index_of_current(c) IN
  IF closing THEN c
  ELSE IF i = 0 THEN c
  ELSE IF is_playing(c) \/ is_paused(c) THEN c
  ELSE IF ~download_mode
    THEN next_track([c EXCEPT !.tracks[i].status = "played",
                              !.opened = Append(@, c.tracks[i].url)],
                    TRUE, play_fails)
  ELSE IF ~ready THEN [c EXCEPT !.text = "Audio error"]
  ELSE IF ~exists(c, c.tracks[i].local_path)
    THEN [c EXCEPT !.tracks[i].status = "queued",
                   !.text = IF force THEN "Waiting download" ELSE @]
  ELSE IF play_fails
    THEN next_track([player_stop(c) EXCEPT !.tracks[i].status = "failed",
                                          !.tracks[i].error = "play error"],
                    TRUE, FALSE)
  ELSE cleanup_temp_window(
         [c EXCEPT !.busy = TRUE, !.paused = FALSE, !.fresh = TRUE,
                   !.tracks[i].status = "playing", !.text = "Playing"])

\* PlayerController.play_current
play_current(c, force, play_fails) ==
  LET i == index_of_current(c) IN
  IF closing THEN c
  ELSE IF i = 0 THEN c
  ELSE IF is_playing(c) \/ is_paused(c) THEN c
  ELSE IF ~download_mode
    THEN next_track([c EXCEPT !.tracks[i].status = "played",
                              !.opened = Append(@, c.tracks[i].url)],
                    TRUE, play_fails)
  ELSE IF ~ready THEN [c EXCEPT !.text = "Audio error"]
  ELSE IF ~exists(c, c.tracks[i].local_path)
    THEN [c EXCEPT !.tracks[i].status = "queued",
                   !.text = IF force THEN "Waiting download" ELSE @]
  ELSE IF play_fails
    THEN [player_stop(c) EXCEPT !.tracks[i].status = "failed",
                                !.tracks[i].error = "play error"]
  ELSE cleanup_temp_window(
         [c EXCEPT !.busy = TRUE, !.paused = FALSE, !.fresh = TRUE,
                   !.tracks[i].status = "playing", !.text = "Playing"])

\* PlayerController.next_track
next_track(c, auto, play_fails) ==
  LET i == index_of_current(c)
      c1 == IF i = 0 THEN c
            ELSE [c EXCEPT !.tracks[i].status =
                             IF auto THEN "played" ELSE "skipped"]
      c2 == player_stop(c1)
      nid == next_id(c2)
  IN IF closing THEN c
     ELSE IF nid = None THEN [c2 EXCEPT !.text = "End of queue"]
     ELSE play_current(ctl_set_current(c2, nid), TRUE, play_fails)

PlayPauseMutant(c, play_fails) ==
  LET i == index_of_current(c) IN
  IF i = 0 \/ closing THEN c
  ELSE IF ~download_mode THEN play_current(c, TRUE, play_fails)
  ELSE IF is_playing(c) /\ ~is_paused(c)
    THEN [player_pause(c) EXCEPT !.tracks[i].status = "paused"]
  ELSE IF is_paused(c)
    THEN [player_resume(c) EXCEPT !.fresh = TRUE]
  ELSE play_current(c, TRUE, play_fails)

\* PlayerController.play_pause
play_pause(c, play_fails) ==
  LET i == index_of_current(c) IN
  IF i = 0 \/ closing THEN c
  ELSE IF ~download_mode THEN play_current(c, TRUE, play_fails)
  ELSE IF is_playing(c) /\ ~is_paused(c)
    THEN [player_pause(c) EXCEPT !.tracks[i].status = "paused"]
  ELSE IF is_paused(c)
    THEN [player_resume(c) EXCEPT !.fresh = TRUE,
                                  !.tracks[i].status = "playing"]
  ELSE play_current(c, TRUE, play_fails)

\* PlayerController.prev_track
prev_track(c, play_fails) ==
  LET pid == prev_id(c) IN
  IF pid = None THEN c
  ELSE play_current(ctl_set_current(player_stop(c), pid), TRUE, play_fails)

\* PlayerController.skip_track
skip_track(c, play_fails) ==
  LET i == index_of_current(c) IN
  IF i = 0 THEN c
  ELSE next_track(player_stop([c EXCEPT !.tracks[i].status = "skipped"]),
                  FALSE, play_fails)

\* PlayerController.go_start
go_start(c, play_fails) ==
  IF Len(c.tracks) = 0 THEN c
  ELSE play_current(ctl_set_current(player_stop(c), c.tracks[1].track_id),
                    TRUE, play_fails)

\* PlayerController.watchdog: the test that lets a tick act
watchdog_fires(c) ==
  /\ ~closing
  /\ ~stop_event
  /\ download_mode
  /\ ~is_paused(c)
  /\ ~c.fresh
  /\ ~is_playing(c)
  /\ index_of_current(c) # 0
  /\ c.tracks[index_of_current(c)].status = "playing"

\* PlayerController.watchdog
watchdog(c, play_fails) ==
  LET i == index_of_current(c) IN
  IF ~watchdog_fires(c) THEN c
  ELSE next_track(cleanup_temp_window([c EXCEPT !.tracks[i].status = "played"]),
                  TRUE, play_fails)

\* PlayerController.clear_temp
clear_temp(c) ==
  LET c1 == player_stop(c) IN
  [c1 EXCEPT !.disk = {},
             !.tracks = [i \in 1..Len(c1.tracks) |->
                [c1.tracks[i] EXCEPT
                   !.local_path = NoPath,
                   !.status = IF @ \in {"downloading", "playing", "paused"}
                              THEN "queued" ELSE @]]]

\* PlayerController.clear_queue
clear_queue(c) ==
  [set_current(clear(player_stop(c)), None) EXCEPT !.text = "Queue cleared"]

\* process_ui_events, the new_track branch
on_new_track(c, track) ==
  LET r == append_if_new(c, track)
      c2 == [r.c EXCEPT !.tracks = sort(@)]
  IN IF ~r.ret THEN r.c
     ELSE IF c2.cur = None THEN ctl_set_current(c2, track.track_id)
     ELSE c2

StatusGuardMutant(st, current) == TRUE

\* process_ui_events, the track_status branch: the rank test
status_accepted(st, current) == ~(status_rank(st) < status_rank(current))

OnTrackStatusMutant(c, ev) ==
  LET i == IF get(c.tracks, ev.track_id) = 0 THEN index_of_current(c)
           ELSE get(c.tracks, ev.track_id)
      st == normalize_status(ev.status)
  IN IF i = 0 THEN c
     ELSE IF ~status_accepted(st, c.tracks[i].status) THEN c
     ELSE [c EXCEPT !.tracks[i].status = st,
                    !.tracks[i].error = IF ev.error # "" THEN ev.error ELSE @]

\* process_ui_events, the track_status branch
on_track_status(c, ev) ==
  LET i == get(c.tracks, ev.track_id)
      st == normalize_status(ev.status)
  IN IF i = 0 THEN c
     ELSE IF ~status_accepted(st, c.tracks[i].status) THEN c
     ELSE [c EXCEPT !.tracks[i].status = st,
                    !.tracks[i].error = IF ev.error # "" THEN ev.error ELSE @]

OnDownloadDoneMutant(c, ev, play_fails) ==
  LET i == get(c.tracks, ev.track_id)
  IN IF i = 0 THEN c
     ELSE [c EXCEPT !.tracks[i].local_path = ev.path,
                    !.tracks[i].status = "queued"]

\* process_ui_events, the download_done branch
on_download_done(c, ev, play_fails) ==
  LET i == get(c.tracks, ev.track_id)
      c1 == [c EXCEPT !.tracks[i].local_path = ev.path,
                      !.tracks[i].status =
                         IF @ \in {"playing", "paused"} THEN @ ELSE "queued"]
  IN IF i = 0 THEN c
     ELSE IF c1.tracks[i].track_id = c1.cur /\ download_mode /\ ~is_playing(c1)
       THEN play_current(c1, TRUE, play_fails)
     ELSE c1

\* ------------------------------------------------------------ the actions
\* what a controller handler reads and may change
Ctl ==
  [tracks |-> tracks, cur |-> current_track_id, disk |-> disk,
   paused |-> paused, busy |-> busy, fresh |-> fresh, wt |-> wt, text |-> "",
   opened |-> <<>>]

\* the state after a handler named op, called with arg, that returned ret
Done(c, op, arg, ret) ==
  /\ tracks' = c.tracks
  /\ current_track_id' = c.cur
  /\ disk' = c.disk
  /\ paused' = c.paused
  /\ busy' = c.busy
  /\ fresh' = c.fresh
  /\ wt' = c.wt
  /\ lastOp' = [op |-> op, arg |-> arg, ret |-> ret, text |-> c.text,
                removed |-> (Ids(tracks) \cup
                               (IF ret = "true" THEN {arg} ELSE {}))
                            \ Ids(c.tracks),
                deleted |-> disk \ c.disk, opened |-> c.opened]

\* a step of a background thread, of the mixer or of the clock
Background ==
  /\ lastOp' = [op |-> "background", arg |-> "", ret |-> "", text |-> "",
                removed |-> {}, deleted |-> {}, opened |-> <<>>]
  /\ UNCHANGED <<ready, da_token, dx_token, closing, commands, driver,
                 threads>>

\* the commands of one run: two more where only the playback commands are
\* given
CommandLimit == IF driver = "player" THEN MaxCommands + 2 ELSE MaxCommands

\* The window is open and the controller thread is free: the user gives one
\* more command.
UserCommand ==
  /\ ~closing /\ ~draining
  /\ commands < CommandLimit
  /\ commands' = commands + 1
  /\ UNCHANGED <<ready, da_token, dx_token, driver, threads>>

\* a Tk timer callback runs on the controller thread
TimerCallback ==
  /\ ~closing
  /\ UNCHANGED <<ready, da_token, dx_token, closing, commands, driver,
                 threads>>

\* what no handler but save_config, start, stop, close and the drain changes
CtlFrame ==
  UNCHANGED <<download_mode, closing, stop_event, loops, cursor, ui_events,
              draining, dirty, wpc, wout>>

Event(type, track_id, status, error, path) ==
  [type |-> type, track_id |-> track_id, status |-> status, error |-> error,
   path |-> path]

\* PlayerController.save_config.  The tokens are those of the settings tab;
\* the mode check box is what the user changes between two saves.
SaveConfig ==
  /\ UserCommand
  /\ download_mode' = ~download_mode
  /\ Done(Ctl, "save_config", "", "")
  /\ UNCHANGED <<closing, stop_event, loops, cursor, ui_events, draining,
                 dirty,
                 wpc, wout>>

\* PlayerController.start, with Pollers.start.  Several loops of one feed
\* count as one: loops[s] says that a loop of feed s has been started.
Start ==
  \E pf \in BOOLEAN :
    /\ UserCommand
    /\ IF ~da_token /\ ~dx_token
       THEN /\ Done([Ctl EXCEPT !.text = "no tokens"], "start", "", "refused")
            /\ UNCHANGED <<stop_event, loops>>
       ELSE /\ stop_event' = FALSE
            /\ loops' = [DA |-> IF da_token THEN 1 ELSE loops["DA"],
                         DX |-> IF dx_token THEN 1 ELSE loops["DX"]]
            /\ LET c == [Ctl EXCEPT !.text = "Polling: ON"]
               IN Done(IF index_of_current(c) # 0 /\ ~is_playing(c)
                       THEN play_current(c, TRUE, pf) ELSE c,
                       "start", "", "started")
    /\ UNCHANGED <<download_mode, closing, cursor, ui_events, draining,
                   dirty, wpc,
                   wout>>

\* PlayerController.stop, with Pollers.stop
Stop ==
  /\ UserCommand
  /\ stop_event' = TRUE
  /\ Done([Ctl EXCEPT !.text = "Polling: OFF"], "stop", "", "")
  /\ UNCHANGED <<download_mode, closing, loops, cursor, ui_events, draining,
                 dirty,
                 wpc, wout>>

\* PlayerController.play_pause
PlayPause ==
  \E pf \in BOOLEAN :
    /\ UserCommand
    /\ Done(play_pause(Ctl, pf), "play_pause", current_track_id, "")
    /\ CtlFrame

\* PlayerController.next_track
NextTrack ==
  \E auto \in BOOLEAN, pf \in BOOLEAN :
    /\ UserCommand
    /\ Done(next_track(Ctl, auto, pf), "next_track", current_track_id,
            IF auto THEN "auto" ELSE "manual")
    /\ CtlFrame

\* PlayerController.prev_track
PrevTrack ==
  \E pf \in BOOLEAN :
    /\ UserCommand
    /\ Done(prev_track(Ctl, pf), "prev_track", current_track_id, "")
    /\ CtlFrame

\* PlayerController.skip_track
SkipTrack ==
  \E pf \in BOOLEAN :
    /\ UserCommand
    /\ Done(skip_track(Ctl, pf), "skip_track", current_track_id, "")
    /\ CtlFrame

\* PlayerController.go_start
GoStart ==
  \E pf \in BOOLEAN :
    /\ UserCommand
    /\ Done(go_start(Ctl, pf), "go_start", current_track_id, "")
    /\ CtlFrame

\* PlayerController.set_current_by_id
SetCurrentById ==
  \E id \in {it.track_id : it \in FeedItems} \cup {None} :
    /\ UserCommand
    /\ Done(ctl_set_current(Ctl, id), "set_current_by_id", id, "")
    /\ CtlFrame

\* PlayerController.clear_temp
ClearTemp ==
  /\ UserCommand
  /\ Done(clear_temp(Ctl), "clear_temp", "", "")
  /\ CtlFrame

\* PlayerController.clear_queue
ClearQueue ==
  /\ UserCommand
  /\ Done(clear_queue(Ctl), "clear_queue", "", "")
  /\ CtlFrame

\* PlayerController.close
Close ==
  /\ UserCommand
  /\ closing' = TRUE
  /\ stop_event' = TRUE
  /\ Done(player_stop(Ctl), "close", "", "")
  /\ UNCHANGED <<download_mode, loops, cursor, ui_events, draining, dirty, wpc,
                 wout>>

\* PlayerController.watchdog, a tick of its timer
Watchdog ==
  \E pf \in BOOLEAN :
    /\ TimerCallback
    /\ ~draining
    /\ Done(watchdog(Ctl, pf), "watchdog", current_track_id,
            IF watchdog_fires(Ctl) THEN "fired" ELSE "idle")
    /\ CtlFrame

GetNowaitMutant(q) ==
  [ev |-> q[Len(q)], rest |-> SubSeq(q, 1, Len(q) - 1)]

\* ui_events.get_nowait() on a queue that is not empty: the event it
\* returns and the queue it leaves
get_nowait(q) == [ev |-> Head(q), rest |-> Tail(q)]

\* process_ui_events: one turn of its while loop on the event ev
handle(c, ev, pf) ==
  CASE ev.type = "new_track" -> on_new_track(c, Track(ItemOf(ev.track_id)))
    [] ev.type = "track_status" -> on_track_status(c, ev)
    [] ev.type = "download_done" -> on_download_done(c, ev, pf)
    [] OTHER -> c

SetsDirtyMutant(c, ev) ==
  \/ ev.type = "new_track"
  \/ /\ ev.type = "track_status"
     /\ get(c.tracks, ev.track_id) # 0
     /\ status_accepted(normalize_status(ev.status),
                        c.tracks[get(c.tracks, ev.track_id)].status)
  \/ /\ ev.type = "download_done"
     /\ get(c.tracks, ev.track_id) # 0

\* process_ui_events: the turn of the loop on ev reaches "dirty = True"
sets_dirty(c, ev) ==
  \/ /\ ev.type = "new_track"
     /\ append_if_new(c, Track(ItemOf(ev.track_id))).ret
  \/ /\ ev.type = "track_status"
     /\ get(c.tracks, ev.track_id) # 0
     /\ status_accepted(normalize_status(ev.status),
                        c.tracks[get(c.tracks, ev.track_id)].status)
  \/ /\ ev.type = "download_done"
     /\ get(c.tracks, ev.track_id) # 0

\* process_ui_events: get_nowait() returns an event and the loop handles it
DrainEvent ==
  \E pf \in BOOLEAN :
    /\ TimerCallback
    /\ ui_events # <<>>
    /\ LET ev == get_nowait(ui_events).ev
       IN Done(handle(Ctl, ev, pf), ev.type, ev.track_id,
               IF ev.type = "new_track"
               THEN (IF append_if_new(Ctl, Track(ItemOf(ev.track_id))).ret
                     THEN "true" ELSE "false")
               ELSE ev.status)
    /\ ui_events' = get_nowait(ui_events).rest
    /\ draining' = TRUE
    /\ dirty' = (dirty \/ sets_dirty(Ctl, get_nowait(ui_events).ev))
    /\ UNCHANGED <<download_mode, stop_event, loops, cursor, wpc, wout>>

\* process_ui_events: get_nowait() raises Empty and the call returns
DrainEnd ==
  /\ draining
  /\ ui_events = <<>>
  /\ draining' = FALSE
  /\ dirty' = FALSE
  /\ Background
  /\ UNCHANGED <<tracks, current_track_id, disk, paused, busy, fresh,
                 download_mode, stop_event, loops, cursor, ui_events, wpc,
                 wt, wout>>

\* the mixer reaches the end of the stream
TrackEnds ==
  /\ ready /\ busy /\ ~paused
  /\ busy' = FALSE
  /\ Background
  /\ UNCHANGED <<tracks, current_track_id, disk, paused, fresh,
                 download_mode, stop_event, loops, cursor, ui_events,
                 draining, dirty, wpc, wt, wout>>

\* 1.2 s have passed since _last_play_start_ts
TimePasses ==
  /\ fresh
  /\ fresh' = FALSE
  /\ Background
  /\ UNCHANGED <<tracks, current_track_id, disk, paused, busy,
                 download_mode, stop_event, loops, cursor, ui_events,
                 draining, dirty, wpc, wt, wout>>

\* ------------------------------------------------------- the download loop
\* the fields of the Track object a target refers to
target_track(t) ==
  IF t.live THEN tracks[get(tracks, t.track_id)]
  ELSE [track_id |-> t.track_id, status |-> t.status,
        local_path |-> t.local_path]

\* Downloader.download_mp3: the file it decides to write
download_path(id) ==
  LET it == ItemOf(id)
      safe == sanitize_filename(it.title)
  IN IF <<safe, 0>> \in disk THEN <<safe, (it.created_ts \div 2) + 1>>
     ELSE <<safe, 0>>

WantsFetchMutant(t) == ~(t.local_path # NoPath /\ t.local_path \in disk)

\* _download_loop: the tests that let a target be fetched
wants_fetch(t) ==
  /\ ~(t.local_path # NoPath /\ t.local_path \in disk)
  /\ t.status \notin {"downloading", "playing", "paused"}

WorkerFrameMutant ==
  /\ tracks' = IF tracks = <<>> THEN tracks
               ELSE [tracks EXCEPT ![1].status = "downloading"]
  /\ UNCHANGED <<current_track_id, paused, busy, fresh, download_mode,
                 stop_event, loops, cursor, draining, dirty>>

\* what _download_loop never writes
WorkerFrame ==
  UNCHANGED <<tracks, current_track_id, paused, busy, fresh, download_mode,
              stop_event, loops, cursor, draining, dirty>>

\* _download_loop: after the sleep, the mode tests and the choice of targets
WorkerScan ==
  /\ wpc = "sleep"
  /\ ~closing /\ download_mode /\ ~stop_event
  /\ index_of_current(Ctl) # 0
  /\ LET idx == index_of_current(Ctl)
         hi == IF idx + 1 > Len(tracks) THEN Len(tracks) ELSE idx + 1
     IN wt' = [i \in 1..(hi - idx + 1) |->
                 [track_id |-> tracks[idx + i - 1].track_id, live |-> TRUE,
                  status |-> "", local_path |-> NoPath]]
  /\ wpc' = "scan"
  /\ Background
  /\ UNCHANGED <<disk, ui_events, wout>>
  /\ WorkerFrame

\* _download_loop: the for loop reaches its next target, or ends
WorkerCheck ==
  /\ wpc = "scan"
  /\ IF wt = <<>>
     THEN /\ wpc' = "sleep"
          /\ UNCHANGED <<wt, ui_events, wout>>
     ELSE LET t == target_track(Head(wt)) IN
          IF wants_fetch(t)
          THEN /\ Len(ui_events) < MaxEvents
               /\ ui_events' = Append(ui_events,
                    Event("track_status", t.track_id, "downloading", "", NoPath))
               /\ wout' = download_path(t.track_id)
               /\ wpc' = "fetch"
               /\ UNCHANGED wt
          ELSE /\ wt' = Tail(wt)
               /\ UNCHANGED <<wpc, ui_events, wout>>
  /\ Background
  /\ UNCHANGED disk
  /\ WorkerFrame

\* _download_loop: download_mp3 returns the file it wrote, or raises
WorkerFetchDone ==
  \E ok \in BOOLEAN :
    /\ wpc = "fetch"
    /\ LET id == Head(wt).track_id IN
       IF ok
       THEN /\ Len(ui_events) + 2 <= MaxEvents
            /\ disk' = disk \cup {wout}
            /\ ui_events' = ui_events \o
                 <<Event("download_done", id, "", "", wout),
                   Event("log", "", "", "", NoPath)>>
       ELSE /\ Len(ui_events) < MaxEvents
            /\ disk' = disk
            /\ ui_events' = Append(ui_events,
                 Event("track_status", id, "failed", "download error", NoPath))
    /\ wt' = Tail(wt)
    /\ wout' = NoPath
    /\ wpc' = "scan"
    /\ Background
    /\ WorkerFrame

\* ------------------------------------------------------------- the pollers
token(s) == IF s = "DA" THEN da_token ELSE dx_token

\* what one request to the feed s can return: one or two of its items, in
\* any order
Responses(s) ==
  LET I == {it \in FeedItems : it.source = s}
  IN {<<a>> : a \in I}
     \cup {<<p[1], p[2]>> : p \in {q \in I \X I : q[1] # q[2]}}

\* DonationAlertsClient.fetch_new_tracks: the tracks returned and the new
\* last_media_id
fetch_da(resp, last) ==
  LET New(m) == m.key > last
      out == SelectSeq(resp, New)
  IN [out |-> out,
      cursor |-> Max({last} \cup {out[i].key : i \in 1..Len(out)})]

\* DonateXClient.fetch_new_tracks: the tracks returned and the new
\* last_timestamp (0 is None)
fetch_dx(resp, last) ==
  LET New(d) == ~(last # 0 /\ d.key <= last)
      out == SelectSeq(sort(resp), New)
  IN [out |-> out,
      cursor |-> IF out = <<>> THEN last ELSE out[Len(out)].key]

fetch_new_tracks(s, resp, last) ==
  IF s = "DA" THEN fetch_da(resp, last) ELSE fetch_dx(resp, last)

PollFrame ==
  UNCHANGED <<tracks, current_track_id, disk, paused, busy, fresh,
              download_mode, stop_event, loops, draining, dirty, wpc, wt,
              wout>>

\* Pollers._loop_da / _loop_dx: one cycle whose request succeeds
PollCycle ==
  \E s \in {"DA", "DX"} :
    \E resp \in Responses(s) :
      LET r == fetch_new_tracks(s, resp, cursor[s]) IN
      /\ loops[s] > 0 /\ ~stop_event /\ token(s)
      /\ r.out # <<>>
      /\ Len(ui_events) + Len(r.out) <= MaxEvents
      /\ ui_events' = ui_events \o
           [i \in 1..Len(r.out) |->
              Event("new_track", r.out[i].track_id, "", "", NoPath)]
      /\ cursor' = [cursor EXCEPT ![s] = r.cursor]
      /\ Background
      /\ PollFrame

\* ------------------------------------------------ the pollers on their own
\* Pollers with its two loops as threads.  A thread is at "top" when it is
\* about to test the stop flag (it has just been started, or it sleeps
\* after a cycle), at "fetch" inside a cycle, and at "exit" when its loop has
\* ended.  stopped records that stop() was called while the thread was alive.
\* A thread at "store" has run the for loop of fetch_new_tracks: events are
\* the tracks of its list out, cursor its local new_max / updated_last.
\* latest says that the thread is one of self._threads, the list of the
\* start() that was called last.
NewThread(s) ==
  [feed |-> s, pc |-> "top", stopped |-> FALSE, latest |-> TRUE,
   events |-> <<>>, cursor |-> 0]

\* Pollers.start: the threads it starts
pollers_start(th) ==
  [i \in 1..Len(th) |-> [th[i] EXCEPT !.latest = FALSE]]
     \o (IF da_token THEN <<NewThread("DA")>> ELSE <<>>)
     \o (IF dx_token THEN <<NewThread("DX")>> ELSE <<>>)

\* what a cycle's call of fetch_new_tracks can do: with a blank token it
\* returns the empty list at once; otherwise the request returns one of the
\* feed's responses, or raises
Outcomes(s) ==
  IF ~token(s) THEN {[ok |-> TRUE, media |-> <<>>]}
  ELSE {[ok |-> TRUE, media |-> r] : r \in Responses(s)}
       \cup {[ok |-> FALSE, media |-> r] : r \in Responses(s)}

LoopBodyMutant(s, res, last) ==
  LET r == fetch_new_tracks(s, res.media, last)
      new == [i \in 1..Len(r.out) |->
                Event("new_track", r.out[i].track_id, "", "", NoPath)]
  IN IF res.ok THEN [events |-> new, cursor |-> r.cursor]
     ELSE [events |-> Append(new, Event("log", "", "", s, NoPath)),
           cursor |-> r.cursor]

\* Pollers._loop_da / _loop_dx: the try statement of one cycle; the events
\* it emits and the cursor the client is left with
loop_body(s, res, last) ==
  LET r == fetch_new_tracks(s, res.media, last) IN
  IF res.ok
  THEN [events |-> [i \in 1..Len(r.out) |->
                      Event("new_track", r.out[i].track_id, "", "", NoPath)],
        cursor |-> r.cursor]
  ELSE [events |-> <<Event("log", "", "", s, NoPath)>>, cursor |-> last]

\* what the pollers never write
PFrameBase ==
  UNCHANGED <<tracks, current_track_id, disk, paused, busy, fresh, ready,
              download_mode, closing, loops, draining, dirty, wpc, wt, wout,
              driver>>

PFrame == PFrameBase /\ UNCHANGED <<da_token, dx_token, commands>>

POp(op, arg, ret) ==
  lastOp' = [op |-> op, arg |-> arg, ret |-> ret, text |-> "",
             removed |-> {}, deleted |-> {}, opened |-> <<>>]

\* the threads a run may start: one fewer where the tokens change as well
LoopLimit == IF driver = "credentials" THEN MaxLoops - 1 ELSE MaxLoops

\* Pollers.start
PStart ==
  /\ Len(pollers_start(threads)) <= LoopLimit
  /\ threads' = pollers_start(threads)
  /\ stop_event' = FALSE
  /\ POp("start", "", "")
  /\ UNCHANGED <<cursor, ui_events>>
  /\ PFrame

\* Pollers.stop
PStop ==
  /\ stop_event' = TRUE
  /\ threads' = [i \in 1..Len(threads) |->
                   IF threads[i].pc # "exit"
                   THEN [threads[i] EXCEPT !.stopped = TRUE] ELSE threads[i]]
  /\ POp("stop", "", "")
  /\ UNCHANGED <<cursor, ui_events>>
  /\ PFrame

\* while not self._stop_event.is_set(): the test, on entry or after the sleep
LoopTop ==
  \E i \in 1..Len(threads) :
    /\ threads[i].pc = "top"
    /\ threads' = [threads EXCEPT ![i].pc = IF stop_event THEN "exit"
                                            ELSE "fetch"]
    /\ POp("loop_top", threads[i].feed, threads'[i].pc)
    /\ UNCHANGED <<stop_event, cursor, ui_events>>
    /\ PFrame

\* a cycle: the request raises, and the except clause emits the log event
\* before the sleep; or it returns, and the for loop of fetch_new_tracks
\* builds the list of new tracks and the value for the cursor from the
\* cursor it reads
LoopFetch ==
  \E i \in 1..Len(threads) :
    \E res \in Outcomes(threads[i].feed) :
      LET s == threads[i].feed
          b == loop_body(s, res, cursor[s])
      IN /\ threads[i].pc = "fetch"
         /\ IF res.ok
            THEN /\ threads' = [threads EXCEPT ![i].pc = "store",
                                               ![i].events = b.events,
                                               ![i].cursor = b.cursor]
                 /\ UNCHANGED <<ui_events, cursor>>
                 /\ POp("fetched", s, "")
            ELSE /\ Len(ui_events) + Len(b.events) <= MaxEvents
                 /\ ui_events' = ui_events \o b.events
                 /\ cursor' = [cursor EXCEPT ![s] = b.cursor]
                 /\ threads' = [threads EXCEPT ![i].pc = "top"]
                 /\ POp("poll_fail", s, "")
         /\ UNCHANGED stop_event
         /\ PFrame

\* the end of a cycle whose request returned: fetch_new_tracks assigns the
\* cursor and returns, the loop emits the tracks and goes to sleep
LoopStore ==
  \E i \in 1..Len(threads) :
    LET s == threads[i].feed IN
    /\ threads[i].pc = "store"
    /\ Len(ui_events) + Len(threads[i].events) <= MaxEvents
    /\ ui_events' = ui_events \o threads[i].events
    /\ cursor' = [cursor EXCEPT ![s] = threads[i].cursor]
    /\ threads' = [threads EXCEPT ![i].pc = "top", ![i].events = <<>>,
                                  ![i].cursor = 0]
    /\ POp("poll", s, "")
    /\ UNCHANGED stop_event
    /\ PFrame

\* the consumer of the events takes one
PConsume ==
  /\ ui_events # <<>>
  /\ ui_events' = Tail(ui_events)
  /\ POp("consume", "", "")
  /\ UNCHANGED <<stop_event, cursor, threads>>
  /\ PFrame

\* the owner of the pollers changes what get_da_token and get_dx_token
\* return (PlayerController.save_config, a command of the user)
PSetTokens ==
  \E da \in BOOLEAN, dx \in BOOLEAN :
    /\ <<da, dx>> # <<da_token, dx_token>>
    /\ commands < MaxCommands
    /\ commands' = commands + 1
    /\ da_token' = da
    /\ dx_token' = dx
    /\ POp("set_tokens", "", "")
    /\ UNCHANGED <<stop_event, cursor, ui_events, threads>>
    /\ PFrameBase

\* Pollers.__init__ with the cursors of a first run; each token is set or
\* blank
InitPoll ==
  /\ tracks = <<>>
  /\ current_track_id = None
  /\ disk = {}
  /\ paused = FALSE
  /\ busy = FALSE
  /\ fresh = FALSE
  /\ ready = TRUE
  /\ download_mode = TRUE
  /\ da_token \in BOOLEAN
  /\ dx_token \in BOOLEAN
  /\ closing = FALSE
  /\ stop_event = FALSE
  /\ loops = [DA |-> 0, DX |-> 0]
  /\ cursor = [DA |-> 0, DX |-> 0]
  /\ ui_events = <<>>
  /\ draining = FALSE /\ dirty = FALSE
  /\ wpc = "sleep"
  /\ wt = <<>>
  /\ wout = NoPath
  /\ threads = <<>>
  /\ commands = 0
  /\ driver = "pollers"
  /\ lastOp = [op |-> "init", arg |-> "", ret |-> "", text |-> "",
               removed |-> {}, deleted |-> {}, opened |-> <<>>]

NextPoll ==
  \/ PStart
  \/ PStop
  \/ LoopTop
  \/ LoopFetch
  \/ LoopStore
  \/ PConsume

SpecPoll == InitPoll /\ [][NextPoll]_vars

\* Pollers.__init__ in an application whose settings the user will change
InitTokens ==
  /\ tracks = <<>>
  /\ current_track_id = None
  /\ disk = {}
  /\ paused = FALSE
  /\ busy = FALSE
  /\ fresh = FALSE
  /\ ready = TRUE
  /\ download_mode = TRUE
  /\ da_token \in BOOLEAN
  /\ dx_token \in BOOLEAN
  /\ closing = FALSE
  /\ stop_event = FALSE
  /\ loops = [DA |-> 0, DX |-> 0]
  /\ cursor = [DA |-> 0, DX |-> 0]
  /\ ui_events = <<>>
  /\ draining = FALSE /\ dirty = FALSE
  /\ wpc = "sleep"
  /\ wt = <<>>
  /\ wout = NoPath
  /\ threads = <<>>
  /\ commands = 0
  /\ driver = "credentials"
  /\ lastOp = [op |-> "init", arg |-> "", ret |-> "", text |-> "",
               removed |-> {}, deleted |-> {}, opened |-> <<>>]

NextTokens ==
  \/ PStart
  \/ PStop
  \/ LoopTop
  \/ LoopFetch
  \/ LoopStore
  \/ PConsume
  \/ PSetTokens

\* the pollers on their own, with tokens that change between the calls
SpecTokens == InitTokens /\ [][NextTokens]_vars

\* --------------------------------------------------------- the whole system
\* The state after app.main has built the queue manager, the window and the
\* controller on a first run with both tokens in config.json: no queue.json,
\* no state files.  The mixer may or may not have initialised.
Init ==
  /\ tracks = <<>>
  /\ current_track_id = None
  /\ disk = {}
  /\ paused = FALSE
  /\ busy = FALSE
  /\ fresh = FALSE
  /\ ready \in BOOLEAN
  /\ download_mode = TRUE
  /\ da_token = TRUE
  /\ dx_token = TRUE
  /\ closing = FALSE
  /\ stop_event = FALSE
  /\ loops = [DA |-> 0, DX |-> 0]
  /\ cursor = [DA |-> 0, DX |-> 0]
  /\ ui_events = <<>>
  /\ draining = FALSE /\ dirty = FALSE
  /\ wpc = "sleep"
  /\ wt = <<>>
  /\ wout = NoPath
  /\ threads = <<>>
  /\ commands = 0
  /\ driver = "application"
  /\ lastOp = [op |-> "init", arg |-> "", ret |-> "", text |-> "",
               removed |-> {}, deleted |-> {}, opened |-> <<>>]

Next ==
  \/ SaveConfig
  \/ Start
  \/ Stop
  \/ PlayPause
  \/ NextTrack
  \/ PrevTrack
  \/ SkipTrack
  \/ GoStart
  \/ SetCurrentById
  \/ ClearTemp
  \/ ClearQueue
  \/ Close
  \/ Watchdog
  \/ DrainEvent
  \/ DrainEnd
  \/ TrackEnds
  \/ TimePasses
  \/ WorkerScan
  \/ WorkerCheck
  \/ WorkerFetchDone
  \/ PollCycle

Spec == Init /\ [][Next]_vars

\* A session in which the user gives one command, as a rule start(), and
\* listens: three items arrive.
InitLong ==
  /\ tracks = <<>>
  /\ current_track_id = None
  /\ disk = {}
  /\ paused = FALSE
  /\ busy = FALSE
  /\ fresh = FALSE
  /\ ready = TRUE
  /\ download_mode = TRUE
  /\ da_token = TRUE
  /\ dx_token = TRUE
  /\ closing = FALSE
  /\ stop_event = FALSE
  /\ loops = [DA |-> 0, DX |-> 0]
  /\ cursor = [DA |-> 0, DX |-> 0]
  /\ ui_events = <<>>
  /\ draining = FALSE /\ dirty = FALSE
  /\ wpc = "sleep"
  /\ wt = <<>>
  /\ wout = NoPath
  /\ threads = <<>>
  /\ commands = MaxCommands - 1
  /\ driver = "listener"
  /\ lastOp = [op |-> "init", arg |-> "", ret |-> "", text |-> "",
               removed |-> {}, deleted |-> {}, opened |-> <<>>]

SpecLong == InitLong /\ [][Next]_vars

\* A session like the one above in which DonateX reports the url of DA:1
\* again, a second and a half after it.
InitDuplicates ==
  /\ tracks = <<>>
  /\ current_track_id = None
  /\ disk = {}
  /\ paused = FALSE
  /\ busy = FALSE
  /\ fresh = FALSE
  /\ ready = TRUE
  /\ download_mode = TRUE
  /\ da_token = TRUE
  /\ dx_token = TRUE
  /\ closing = FALSE
  /\ stop_event = FALSE
  /\ loops = [DA |-> 0, DX |-> 0]
  /\ cursor = [DA |-> 0, DX |-> 0]
  /\ ui_events = <<>>
  /\ draining = FALSE /\ dirty = FALSE
  /\ wpc = "sleep"
  /\ wt = <<>>
  /\ wout = NoPath
  /\ threads = <<>>
  /\ commands = MaxCommands - 1
  /\ driver = "duplicates"
  /\ lastOp = [op |-> "init", arg |-> "", ret |-> "", text |-> "",
               removed |-> {}, deleted |-> {}, opened |-> <<>>]

SpecDuplicates == InitDuplicates /\ [][Next]_vars

\* The application started again: app.main has loaded the queue.json that
\* close() saved while DA:1, the current track, was queued or playing; its
\* file may still be in the temp directory; state_da.json holds the cursor.
\* The user gives one command.
InitRestart ==
  \E st \in {"queued", "playing"}, kept \in BOOLEAN :
    LET path == <<sanitize_filename(ItemOf("DA:1").title), 0>> IN
    /\ tracks = <<[Track(ItemOf("DA:1")) EXCEPT
                     !.status = st,
                     !.local_path = IF st = "playing" \/ kept THEN path
                                    ELSE NoPath]>>
    /\ current_track_id = "DA:1"
    /\ disk = IF kept THEN {path} ELSE {}
    /\ paused = FALSE
    /\ busy = FALSE
    /\ fresh = FALSE
    /\ ready \in BOOLEAN
    /\ download_mode = TRUE
    /\ da_token = TRUE
    /\ dx_token = TRUE
    /\ closing = FALSE
    /\ stop_event = FALSE
    /\ loops = [DA |-> 0, DX |-> 0]
    /\ cursor = [DA |-> 1, DX |-> 0]
    /\ ui_events = <<>>
    /\ draining = FALSE /\ dirty = FALSE
    /\ wpc = "sleep"
    /\ wt = <<>>
    /\ wout = NoPath
    /\ threads = <<>>
    /\ commands = MaxCommands - 1
    /\ driver = "restart"
    /\ lastOp = [op |-> "init", arg |-> "", ret |-> "", text |-> "",
                 removed |-> {}, deleted |-> {}, opened |-> <<>>]

SpecRestart == InitRestart /\ [][Next]_vars

\* The application started again with "download_mode": false in config.json
\* and a queue.json of two queued tracks, the first one current; the feeds
\* have a third item that no poll has seen.
InitExternal ==
  /\ tracks = <<Track(ItemOf("DA:1")), Track(ItemOf("DX:4"))>>
  /\ current_track_id = "DA:1"
  /\ disk = {}
  /\ paused = FALSE
  /\ busy = FALSE
  /\ fresh = FALSE
  /\ ready = TRUE
  /\ download_mode = FALSE
  /\ da_token = TRUE
  /\ dx_token = TRUE
  /\ closing = FALSE
  /\ stop_event = FALSE
  /\ loops = [DA |-> 0, DX |-> 0]
  /\ cursor = [DA |-> 1, DX |-> 4]
  /\ ui_events = <<>>
  /\ draining = FALSE /\ dirty = FALSE
  /\ wpc = "sleep"
  /\ wt = <<>>
  /\ wout = NoPath
  /\ threads = <<>>
  /\ commands = 0
  /\ driver = "external"
  /\ lastOp = [op |-> "init", arg |-> "", ret |-> "", text |-> "",
               removed |-> {}, deleted |-> {}, opened |-> <<>>]

SpecExternal == InitExternal /\ [][Next]_vars

\* The application started again on a queue.json of two queued tracks, one
\* of them current; each has its file from the last session in the temp
\* directory, or none.  The user gives playback commands only, and polling
\* is not started: no track arrives and, for the time of the run, the
\* download loop is left out.
InitPlayback ==
  \E cur \in {"DA:1", "DX:4"}, kept \in SUBSET {"DA:1", "DX:4"} :
    LET path(id) == IF id = "DA:1" THEN <<"a_b", 0>> ELSE <<"a_b", 3>>
        T(id) == [Track(ItemOf(id)) EXCEPT
                    !.local_path = IF id \in kept THEN path(id) ELSE NoPath]
    IN
    /\ tracks = <<T("DA:1"), T("DX:4")>>
    /\ current_track_id = cur
    /\ disk = {path(id) : id \in kept}
    /\ paused = FALSE
    /\ busy = FALSE
    /\ fresh = FALSE
    /\ ready \in BOOLEAN
    /\ download_mode = TRUE
    /\ da_token = TRUE
    /\ dx_token = TRUE
    /\ closing = FALSE
    /\ stop_event = FALSE
    /\ loops = [DA |-> 0, DX |-> 0]
    /\ cursor = [DA |-> 1, DX |-> 4]
    /\ ui_events = <<>>
    /\ draining = FALSE /\ dirty = FALSE
    /\ wpc = "sleep"
    /\ wt = <<>>
    /\ wout = NoPath
    /\ threads = <<>>
    /\ commands = 0
    /\ driver = "player"
    /\ lastOp = [op |-> "init", arg |-> "", ret |-> "", text |-> "",
                 removed |-> {}, deleted |-> {}, opened |-> <<>>]

NextPlayback ==
  \/ PlayPause
  \/ NextTrack
  \/ PrevTrack
  \/ SkipTrack
  \/ GoStart
  \/ SetCurrentById
  \/ Watchdog
  \/ TrackEnds
  \/ TimePasses

SpecPlayback == InitPlayback /\ [][NextPlayback]_vars

\* The application left to itself after start() on a first run: polling is
\* on, the mixer is ready, the user gives no further command, every download
\* succeeds and the mixer loads every file.
InitUnattended ==
  /\ tracks = <<>>
  /\ current_track_id = None
  /\ disk = {}
  /\ paused = FALSE
  /\ busy = FALSE
  /\ fresh = FALSE
  /\ ready = TRUE
  /\ download_mode = TRUE
  /\ da_token = TRUE
  /\ dx_token = TRUE
  /\ closing = FALSE
  /\ stop_event = FALSE
  /\ loops = [DA |-> 1, DX |-> 1]
  /\ cursor = [DA |-> 0, DX |-> 0]
  /\ ui_events = <<>>
  /\ draining = FALSE /\ dirty = FALSE
  /\ wpc = "sleep"
  /\ wt = <<>>
  /\ wout = NoPath
  /\ threads = <<>>
  /\ commands = MaxCommands
  /\ driver = "unattended"
  /\ lastOp = [op |-> "start", arg |-> "", ret |-> "started",
               text |-> "Polling: ON", removed |-> {}, deleted |-> {},
               opened |-> <<>>]

\* no track gets the error of a failed start of playback
PlaySucceeds ==
  \A i \in 1..Len(tracks') :
    tracks'[i].error = "play error" =>
      \E j \in 1..Len(tracks) : tracks[j] = tracks'[i]

\* download_mp3 returns
FetchSucceeds == wout \in disk' /\ Len(ui_events') = Len(ui_events) + 2

WatchdogPlays == Watchdog /\ PlaySucceeds
DrainEventPlays == DrainEvent /\ PlaySucceeds
WorkerFetched == WorkerFetchDone /\ FetchSucceeds

NextUnattended ==
  \/ WatchdogPlays
  \/ DrainEventPlays
  \/ DrainEnd
  \/ TrackEnds
  \/ TimePasses
  \/ WorkerScan
  \/ WorkerCheck
  \/ WorkerFetched
  \/ PollCycle

\* a watchdog tick that finds the current track ended
WatchdogFires == watchdog_fires(Ctl) /\ WatchdogPlays

\* such a tick can happen: ENABLED <<WatchdogFires>>_vars
WatchdogDue == ~closing /\ ~draining /\ watchdog_fires(Ctl)

\* process_ui_events would find an event: ENABLED <<DrainEventPlays>>_vars
DrainDue == ~closing /\ ui_events # <<>>

\* The Tk timers call process_ui_events and watchdog again and again, the
\* download loop is a thread that never ends, a stream that plays comes to
\* its end, and time passes.  The first two conjuncts after the next-state
\* relation are WF_vars(WatchdogFires) and WF_vars(DrainEventPlays) with the
\* enabling conditions of the two actions written out.
SpecUnattended ==
  /\ InitUnattended
  /\ [][NextUnattended]_vars
  /\ ([]<>(~WatchdogDue) \/ []<><<WatchdogFires>>_vars)
  /\ ([]<>(~DrainDue) \/ []<><<DrainEventPlays>>_vars)
  /\ WF_vars(DrainEnd)
  /\ WF_vars(TrackEnds)
  /\ WF_vars(TimePasses)
  /\ WF_vars(WorkerScan)
  /\ WF_vars(WorkerCheck)
  /\ WF_vars(WorkerFetched)

\* ------------------------------------------- the queue manager on its own
\* QueueManager driven through its methods by a caller that, like the
\* controller, also writes the status and the local_path of queued tracks.
QFrame ==
  UNCHANGED <<ready, download_mode, da_token, dx_token, closing, stop_event,
              loops, cursor, ui_events, draining, dirty, wpc, wout, threads,
              commands, driver>>

\* QueueManager.append_if_new
QAppend ==
  \E it \in Candidates :
    LET r == append_if_new(Ctl, Track(it)) IN
    /\ Done(r.c, "append_if_new", it.track_id,
            IF r.ret THEN "true" ELSE "false")
    /\ QFrame

\* QueueManager.set_current
QSetCurrent ==
  \E id \in AllIds \cup {None} :
    /\ Done(set_current(Ctl, id), "set_current", id, "")
    /\ QFrame

\* QueueManager.clear
QClear ==
  /\ Done(clear(Ctl), "clear", "", "")
  /\ QFrame

\* the caller writes t.status
QSetStatus ==
  \E i \in 1..Len(tracks), st \in {"queued", "playing", "paused", "played"} :
    /\ tracks[i].status # st
    /\ Done([Ctl EXCEPT !.tracks[i].status = st], "set_status",
            tracks[i].track_id, st)
    /\ QFrame

\* the caller writes t.local_path, the file a download has just written
QSetLocalPath ==
  \E i \in 1..Len(tracks) :
    LET path == download_path(tracks[i].track_id) IN
    /\ tracks[i].local_path = NoPath
    /\ Done([Ctl EXCEPT !.tracks[i].local_path = path,
                        !.disk = @ \cup {path}],
            "set_local_path", tracks[i].track_id, "")
    /\ QFrame

\* json null
JsonNull == "null"

\* dataclasses.asdict(t) as json.dump writes it: None becomes null
asdict(t) ==
  [track_id |-> t.track_id, created_ts |-> t.created_ts, url |-> t.url,
   title |-> t.title, status |-> t.status,
   local_path |-> IF t.local_path = NoPath THEN JsonNull ELSE t.local_path,
   error |-> IF t.error = "" THEN JsonNull ELSE t.error]

\* QueueManager.save: the document save_json writes to queue.json
save(c) ==
  [tracks |-> [i \in 1..Len(c.tracks) |-> asdict(c.tracks[i])],
   current_track_id |-> IF c.cur = None THEN JsonNull ELSE c.cur]

TrackFromRawMutant(raw) ==
  [track_id |-> raw.track_id, created_ts |-> raw.created_ts, url |-> raw.url,
   title |-> raw.title, status |-> "queued",
   local_path |-> IF raw.local_path = JsonNull THEN NoPath ELSE raw.local_path,
   error |-> IF raw.error = JsonNull THEN "" ELSE raw.error]

\* Track(**raw) on an entry that json.load has read
track_from_raw(raw) ==
  [track_id |-> raw.track_id, created_ts |-> raw.created_ts, url |-> raw.url,
   title |-> raw.title, status |-> raw.status,
   local_path |-> IF raw.local_path = JsonNull THEN NoPath ELSE raw.local_path,
   error |-> IF raw.error = JsonNull THEN "" ELSE raw.error]

\* the queue.json documents a load can find: up to MaxDoc well-formed tracks
\* in any order, and any current_track_id
Documents ==
  LET T == {asdict(Track(it)) : it \in Candidates}
      Seqs == UNION {[1..n -> T] : n \in 0..MaxDoc}
  IN {[tracks |-> ts, current_track_id |-> id] :
        ts \in {q \in Seqs : \A i, j \in 1..Len(q) :
                                i # j => q[i].track_id # q[j].track_id},
        id \in AllIds \cup {JsonNull}}

\* QueueManager.load
load(c, doc) ==
  ensure_current(
    [c EXCEPT !.tracks = sort([i \in 1..Len(doc.tracks) |->
                                 track_from_raw(doc.tracks[i])]),
              !.cur = IF doc.current_track_id = JsonNull THEN None
                      ELSE doc.current_track_id])

\* QueueManager.load, on a queue manager that has just been built
QLoad ==
  \E doc \in Documents :
    /\ lastOp.op = "init"
    /\ Done(load(Ctl, doc), "load", doc.current_track_id, "")
    /\ QFrame

InitQ == Init /\ ready = TRUE

NextQ ==
  \/ QAppend
  \/ QSetCurrent
  \/ QClear
  \/ QSetStatus
  \/ QSetLocalPath

\* every sequence of calls on a queue manager that starts empty
SpecQ == InitQ /\ [][NextQ]_vars

\* save(), then load() on a QueueManager built anew on the same file
QSaveLoad ==
  /\ Done(load([Ctl EXCEPT !.tracks = <<>>, !.cur = None], save(Ctl)),
          "save_load", current_track_id, "")
  /\ QFrame

NextStore ==
  \/ QAppend
  \/ QSetCurrent
  \/ QClear
  \/ QSetStatus
  \/ QSetLocalPath
  \/ QSaveLoad

\* the queue manager on its own, saved and loaded again at any moment
SpecStore == InitQ /\ [][NextStore]_vars

\* a created_ts that json.load has read as a string, not as a number
NotNumber == -1

\* Track(**raw) returns: raw has every field that has no default
constructible(raw) ==
  {"track_id", "created_ts", "url", "title"} \subseteq DOMAIN raw

\* what can be found at the path of queue.json: no file, a file that is not
\* JSON, a JSON array, or a JSON object with up to MaxDoc entries under
\* "tracks", each of them a track as save() writes it, a track whose
\* created_ts is a string, or an entry without its url
Files ==
  LET T == {asdict(Track(ItemOf(id))) : id \in {"DA:1", "DX:4"}}
             \cup {[asdict(Track(ItemOf("DX:3"))) EXCEPT
                      !.created_ts = NotNumber]}
             \cup {[track_id |-> "DA:2", created_ts |-> 10,
                    title |-> "a_b"]}
      Seqs == UNION {[1..n -> T] : n \in 0..MaxDoc}
  IN {[kind |-> k, tracks |-> <<>>, current_track_id |-> JsonNull] :
        k \in {"missing", "not json", "array"}}
     \cup
     {[kind |-> "object", tracks |-> ts, current_track_id |-> id] :
        ts \in {q \in Seqs : \A i, j \in 1..Len(q) :
                                i # j => q[i].track_id # q[j].track_id},
        id \in AllIds \cup {JsonNull}}

\* storage.load_json(path, default)
load_json(file, default) ==
  IF file.kind \in {"missing", "not json"} THEN default ELSE file

\* list.sort(key=lambda t: t.created_ts) raises TypeError when it compares
\* a string with a number
sort_raises(ts) ==
  \E i, j \in 1..Len(ts) :
    ts[i].created_ts = NotNumber /\ ts[j].created_ts # NotNumber

\* QueueManager.load on what is at the path: the manager it leaves, and the
\* exception that leaves load, if any
load_file(c, file) ==
  LET data == load_json(file, [kind |-> "object", tracks |-> <<>>,
                               current_track_id |-> JsonNull])
      kept == SelectSeq(data.tracks, constructible)
      built == [i \in 1..Len(kept) |-> track_from_raw(kept[i])]
      cur == IF data.current_track_id = JsonNull THEN None
             ELSE data.current_track_id
  IN IF data.kind = "array"
     THEN [c |-> [c EXCEPT !.tracks = <<>>], raised |-> "AttributeError"]
     ELSE IF sort_raises(built)
     THEN [c |-> [c EXCEPT !.tracks = built, !.cur = cur],
           raised |-> "TypeError"]
     ELSE [c |-> ensure_current([c EXCEPT !.tracks = sort(built),
                                          !.cur = cur]),
           raised |-> ""]

\* app.main: queue.load() on a queue manager that has just been built
QLoadFile ==
  \E file \in Files :
    /\ lastOp.op = "init"
    /\ Done(load_file(Ctl, file).c, "load_file", file,
            load_file(Ctl, file).raised)
    /\ QFrame

\* QueueManager.save: save_json writes the document, or open or json.dump
\* raises and save_json passes
QSave ==
  \E fails \in BOOLEAN :
    /\ lastOp.op \in {"load_file", "save", "set_status"}
    /\ lastOp.ret \notin {"AttributeError", "TypeError"}
    /\ Done(Ctl, "save", "", IF fails THEN "skipped" ELSE "written")
    /\ QFrame

\* the caller writes t.status, after a load that returned
QSetStatusLoaded ==
  /\ lastOp.op \in {"load_file", "save", "set_status"}
  /\ lastOp.ret \notin {"AttributeError", "TypeError"}
  /\ QSetStatus

NextLoad ==
  \/ QLoadFile
  \/ QSave
  \/ QSetStatusLoaded

\* the queue manager loaded from whatever is at the path of queue.json,
\* then changed and saved
SpecLoad == InitQ /\ [][NextLoad]_vars

NextAppend ==
  \/ QAppend
  \/ QSetLocalPath

\* a queue built from empty by append_if_new alone: every track stays
\* queued, and downloads write their files
SpecAppend == InitQ /\ [][NextAppend]_vars

\* The application, and next to it the queue manager on its own, loaded
\* from a document first.
InitAll ==
  \/ Init
  \/ /\ tracks = <<>>
     /\ current_track_id = None
     /\ disk = {}
     /\ paused = FALSE
     /\ busy = FALSE
     /\ fresh = FALSE
     /\ ready = TRUE
     /\ download_mode = TRUE
     /\ da_token = TRUE
     /\ dx_token = TRUE
     /\ closing = FALSE
     /\ stop_event = FALSE
     /\ loops = [DA |-> 0, DX |-> 0]
     /\ cursor = [DA |-> 0, DX |-> 0]
     /\ ui_events = <<>>
     /\ draining = FALSE /\ dirty = FALSE
     /\ wpc = "sleep"
     /\ wt = <<>>
     /\ wout = NoPath
     /\ threads = <<>>
     /\ commands = 0
     /\ driver = "caller"
     /\ lastOp = [op |-> "init", arg |-> "", ret |-> "", text |-> "",
                  removed |-> {}, deleted |-> {}, opened |-> <<>>]

NextAll ==
  \/ driver = "application" /\ Next
  \/ driver = "caller" /\ NextQ
  \/ driver = "caller" /\ QLoad

SpecAll == InitAll /\ [][NextAll]_vars

\* ------------------------------------------------------------ properties

\* C1: draining a StatusUpdate(id, s) for a track of the queue changes the
\* track's status only if the rank of the normalised s is at least the rank
\* of the status the track has, and then sets it to the normalised s; the
\* rank of the track's status never goes down in such a step.
C1_StatusUpdateKeepsRank ==
  [][lastOp'.op = "track_status" =>
       \A i \in 1..Len(tracks) :
         tracks[i].track_id = lastOp'.arg =>
           LET j == get(tracks', lastOp'.arg)
               new == normalize_status(lastOp'.ret)
           IN /\ j # 0
              /\ STATUS_ORDER(tracks'[j].status) >= STATUS_ORDER(tracks[i].status)
              /\ tracks'[j].status # tracks[i].status =>
                   /\ STATUS_ORDER(new) >= STATUS_ORDER(tracks[i].status)
                   /\ tracks'[j].status = new]_vars

\* a stale "downloading" update has just been drained for a playing track
C1_Witness ==
  /\ lastOp.op = "track_status"
  /\ lastOp.ret = "downloading"
  /\ \E i \in 1..Len(tracks) :
       tracks[i].track_id = lastOp.arg /\ tracks[i].status = "playing"

\* C2: current_track_id is null or the id of a track of the queue, and null
\* only when the queue is empty.
C2_CurrentValid ==
  IF tracks = <<>> THEN current_track_id = None
  ELSE current_track_id \in Ids(tracks)

\* the current track was not trimmed away by an append that removed a track
C2_Witness ==
  /\ lastOp.removed # {}
  /\ current_track_id \in Ids(tracks)
  /\ current_track_id = tracks[1].track_id
  /\ Len(tracks) = QUEUE_LIMIT

\* C3: a queue built by append_if_new holds no two tracks with one id and no
\* two tracks with one url whose created_ts differ by at most 2.0 seconds.
C3_NoDuplicates ==
  \A i, j \in 1..Len(tracks) :
    i # j =>
      /\ tracks[i].track_id # tracks[j].track_id
      /\ ~(/\ tracks[i].url = tracks[j].url
           /\ Abs(tracks[i].created_ts - tracks[j].created_ts) <= DEDUPE_WINDOW)

\* a candidate with the url of a queued track 1.5 s away has been rejected
C3_Witness ==
  /\ lastOp.op = "append_if_new"
  /\ lastOp.ret = "false"
  /\ lastOp.arg \notin Ids(tracks)
  /\ \E i \in 1..Len(tracks) :
       /\ tracks[i].url = ItemOf(lastOp.arg).url
       /\ Abs(tracks[i].created_ts - ItemOf(lastOp.arg).created_ts) = 3

\* C4: append_if_new returns false, leaving the tracks and the current track
\* as they were, exactly when the queue holds the candidate's id or a track
\* with its url at most 2.0 s away; otherwise it returns true, and a
\* candidate accepted by an empty queue becomes the current track.
C4_AppendResult ==
  [][lastOp'.op = "append_if_new" =>
       LET cand == ItemOf(lastOp'.arg)
           dup == \/ cand.track_id \in Ids(tracks)
                  \/ \E i \in 1..Len(tracks) :
                       /\ tracks[i].url = cand.url
                       /\ Abs(tracks[i].created_ts - cand.created_ts)
                            <= DEDUPE_WINDOW
       IN /\ dup => /\ lastOp'.ret = "false"
                    /\ tracks' = tracks
                    /\ current_track_id' = current_track_id
          /\ ~dup => lastOp'.ret = "true"
          /\ (~dup /\ tracks = <<>>) =>
               /\ Ids(tracks') = {cand.track_id}
               /\ current_track_id' = cand.track_id]_vars

\* a candidate with the url of a queued track 5 s away has been accepted
C4_Witness ==
  /\ lastOp.op = "append_if_new"
  /\ lastOp.ret = "true"
  /\ lastOp.arg \in Ids(tracks)
  /\ \E i \in 1..Len(tracks) :
       /\ tracks[i].url = ItemOf(lastOp.arg).url
       /\ Abs(tracks[i].created_ts - ItemOf(lastOp.arg).created_ts) = 10

\* C5: the track list is sorted ascending by created_ts.
C5_Sorted ==
  \A i, j \in 1..Len(tracks) :
    i < j => tracks[i].created_ts <= tracks[j].created_ts

\* a track older than the queued ones has arrived last and stands first
C5_Witness ==
  /\ lastOp.op \in {"append_if_new", "new_track"}
  /\ lastOp.ret = "true"
  /\ Len(tracks) >= 2
  /\ tracks[1].track_id = lastOp.arg

\* C6: after append_if_new the queue holds at most QUEUE_LIMIT tracks, or
\* every track left is protected: it is the current track or its status is
\* playing or paused.
C6_LimitOrProtected ==
  lastOp.op = "append_if_new" =>
    \/ Len(tracks) <= QUEUE_LIMIT
    \/ \A i \in 1..Len(tracks) :
         \/ tracks[i].track_id = current_track_id
         \/ tracks[i].status \in {"playing", "paused"}

\* an append to a full queue has evicted a track other than the candidate
C6_Witness ==
  /\ lastOp.op = "append_if_new"
  /\ lastOp.ret = "true"
  /\ lastOp.removed # {}
  /\ lastOp.arg \in Ids(tracks)
  /\ Len(tracks) = QUEUE_LIMIT

\* C7: a track removed by the trimming of append_if_new is not the current
\* track and is not playing or paused, no track left in the queue that is
\* neither current nor playing nor paused is older than it, and its
\* downloaded file is no longer on disk.
C7_TrimRemovesOldestUnprotected ==
  [][lastOp'.op = "append_if_new" =>
       \A id \in lastOp'.removed :
         LET i == get(tracks, id)
             t == IF i # 0 THEN tracks[i] ELSE Track(ItemOf(id))
         IN /\ id # current_track_id
            /\ id # current_track_id'
            /\ t.status \notin {"playing", "paused"}
            /\ \A j \in 1..Len(tracks') :
                 \/ tracks'[j].track_id = current_track_id
                 \/ tracks'[j].status \in {"playing", "paused"}
                 \/ tracks'[j].created_ts >= t.created_ts
            /\ t.local_path # NoPath => t.local_path \notin disk']_vars

\* the oldest track was protected, and a younger one with a downloaded file
\* has been evicted
C7_Witness ==
  /\ lastOp.op = "append_if_new"
  /\ \E id \in lastOp.removed :
       /\ id # lastOp.arg
       /\ ItemOf(id).created_ts > tracks[1].created_ts
  /\ lastOp.deleted # {}
  /\ tracks[1].track_id = current_track_id

\* C8 as stated: with capacity 2 and a queue [A, B] built from empty by
\* append_if_new, both queued, append_if_new(C) for a newer C evicts A,
\* deletes the file of A and leaves [B, C].
C8_EvictsOldest ==
  [][(/\ lastOp'.op = "append_if_new"
      /\ lastOp'.ret = "true"
      /\ QUEUE_LIMIT = 2
      /\ Len(tracks) = 2
      /\ ItemOf(lastOp'.arg).created_ts > tracks[2].created_ts) =>
       /\ Len(tracks') = 2
       /\ tracks'[1].track_id = tracks[2].track_id
       /\ tracks'[2].track_id = lastOp'.arg
       /\ tracks[1].local_path # NoPath => tracks[1].local_path \notin disk']_vars

\* C8: when the queue is full of queued tracks built from empty by
\* append_if_new, append_if_new(C) for a newer C evicts the oldest track
\* that is not the current one, deletes the file of that track and keeps
\* the others in order, followed by C: with capacity 2, [A, B] becomes
\* [A, C] when A is current and [B, C] when B is.
C8_EvictsOldestNotCurrent ==
  [][(/\ lastOp'.op = "append_if_new"
      /\ lastOp'.ret = "true"
      /\ QUEUE_LIMIT >= 2
      /\ Len(tracks) = QUEUE_LIMIT
      /\ ItemOf(lastOp'.arg).created_ts > tracks[Len(tracks)].created_ts) =>
       LET v == IF tracks[1].track_id = current_track_id THEN 2 ELSE 1 IN
       /\ tracks' = Append(RemoveAt(tracks, v), Track(ItemOf(lastOp'.arg)))
       /\ current_track_id' = current_track_id
       /\ tracks[v].local_path # NoPath => tracks[v].local_path \notin disk']_vars

\* A, appended first, is current and still first; B had a file and is gone
C8_Witness ==
  /\ lastOp.op = "append_if_new"
  /\ lastOp.removed # {}
  /\ lastOp.arg \notin lastOp.removed
  /\ lastOp.deleted # {}
  /\ \A i \in 1..Len(tracks) : tracks[i].status = "queued"
  /\ Len(tracks) = QUEUE_LIMIT
  /\ tracks[1].track_id = current_track_id
  /\ tracks[Len(tracks)].track_id = lastOp.arg
  /\ \A id \in lastOp.removed :
       /\ ItemOf(id).created_ts > tracks[1].created_ts
       /\ ItemOf(id).created_ts < ItemOf(lastOp.arg).created_ts

\* C9: next(auto = true), from the command or from the watchdog, while the
\* current track is the last of the queue: the track becomes played,
\* playback is stopped, the current track stays, the status text is
\* "End of queue", and no track is added or removed.
C9_EndOfQueue ==
  [][(/\ \/ lastOp'.op = "next_track" /\ lastOp'.ret = "auto"
         \/ lastOp'.op = "watchdog" /\ lastOp'.ret = "fired"
      /\ Len(tracks) > 0
      /\ current_track_id = tracks[Len(tracks)].track_id) =>
       /\ Len(tracks') = Len(tracks)
       /\ \A i \in 1..Len(tracks) : tracks'[i].track_id = tracks[i].track_id
       /\ tracks'[Len(tracks)].status = "played"
       /\ ~busy'
       /\ ~paused'
       /\ current_track_id' = current_track_id
       /\ lastOp'.text = "End of queue"]_vars

\* the watchdog has found the last track finished, with another before it
C9_Witness ==
  /\ lastOp.op = "watchdog"
  /\ lastOp.ret = "fired"
  /\ lastOp.text = "End of queue"
  /\ Len(tracks) = 2
  /\ current_track_id = tracks[2].track_id
  /\ tracks[2].status = "played"

\* C10: a track whose status is played, skipped or failed keeps that status
\* through every drained event, step of the download worker and watchdog
\* tick, and none of them starts its playback.
C10_TerminalStaysTerminal ==
  [][lastOp'.op \in {"new_track", "track_status", "download_done", "log",
                     "watchdog", "background"} =>
       \A i \in 1..Len(tracks) :
         tracks[i].status \in {"played", "skipped", "failed"} =>
           LET j == get(tracks', tracks[i].track_id) IN
           j # 0 => tracks'[j].status = tracks[i].status]_vars

\* C11: a failed fetch, once drained, marks the track failed with the error
\* text; after the failure the worker goes on to its next target; and the
\* worker never starts a fetch for a track whose status is failed.
C11_FailedNotFetchedAgain ==
  /\ [][(lastOp'.op = "track_status" /\ lastOp'.ret = "failed"
         /\ lastOp'.arg \in Ids(tracks)) =>
          LET t == tracks'[get(tracks', lastOp'.arg)] IN
          t.status = "failed" /\ t.error = "download error"]_vars
  /\ [][(wpc = "fetch" /\ wpc' # "fetch") =>
          wpc' = "scan" /\ wt' = Tail(wt)]_vars
  /\ [][(wpc = "scan" /\ wpc' = "fetch") =>
          target_track(Head(wt)).status # "failed"]_vars

\* C13: a step of the poll loops or of the download loop leaves the track
\* list, every field of every track and current_track_id as they are, and
\* only adds events at the end of the channel.
C13_BackgroundOnlyEnqueues ==
  [][lastOp'.op = "background" =>
       /\ tracks' = tracks
       /\ current_track_id' = current_track_id
       /\ Len(ui_events') >= Len(ui_events)
       /\ SubSeq(ui_events', 1, Len(ui_events)) = ui_events]_vars

\* the worker has written a file and enqueued download_done, and the track
\* still has no local_path
C13_Witness ==
  /\ lastOp.op = "background"
  /\ \E k \in 1..Len(ui_events) :
       /\ ui_events[k].type = "download_done"
       /\ ui_events[k].path \in disk
       /\ \E i \in 1..Len(tracks) :
            /\ tracks[i].track_id = ui_events[k].track_id
            /\ tracks[i].local_path = NoPath

\* C19: next(auto) leaves the status of a current track that is already
\* played, skipped or failed as it is.
C19_NextKeepsTerminal ==
  [][lastOp'.op = "next_track" =>
       \A i \in 1..Len(tracks) :
         (/\ tracks[i].track_id = current_track_id
          /\ tracks[i].status \in {"played", "skipped", "failed"}) =>
           tracks'[get(tracks', tracks[i].track_id)].status = tracks[i].status]_vars

\* C20: draining DownloadDone(id, path) for a queued id sets local_path to
\* path; playback starts only if the track is current, acquisition mode is
\* on and the adapter is not playing; when it does not start, the status is
\* queued, or unchanged if it was playing or paused; when play_current is
\* called and does not start it, the status is one of these, or failed.
C20_DownloadDone ==
  [][(lastOp'.op = "download_done" /\ lastOp'.arg \in Ids(tracks)) =>
       LET ev == Head(ui_events)
           t == tracks[get(tracks, ev.track_id)]
           t2 == tracks'[get(tracks', ev.track_id)]
           may_start == /\ t.track_id = current_track_id
                        /\ download_mode
                        /\ ~(ready /\ busy /\ ~paused)
           started == busy' /\ ~busy
           kept == IF t.status \in {"playing", "paused"} THEN t.status
                   ELSE "queued"
       IN /\ t2.local_path = ev.path
          /\ started => may_start /\ t2.status = "playing"
          /\ ~may_start => /\ t2.status = kept
                           /\ busy' = busy /\ paused' = paused
                           /\ current_track_id' = current_track_id
          /\ (may_start /\ ~started) =>
               t2.status \in {kept, "queued", "failed"}]_vars

\* the file of the next track has arrived while nothing plays: the track is
\* queued with its local_path, and nothing has started
C20_Witness ==
  /\ lastOp.op = "download_done"
  /\ lastOp.arg \in Ids(tracks)
  /\ lastOp.arg # current_track_id
  /\ ~busy
  /\ tracks[get(tracks, lastOp.arg)].status = "queued"
  /\ tracks[get(tracks, lastOp.arg)].local_path \in disk

\* C14: while the controller is not closing, a drain step applies the event
\* at the head of the channel and removes exactly that event; every other
\* step keeps the events of the channel, in their order, and adds only at
\* its end; and a drain that has begun does not end while an event is left.
C14_ChannelFifoOnce ==
  /\ [][lastOp'.op \in {"new_track", "track_status", "download_done", "log"} =>
          /\ ui_events # <<>>
          /\ lastOp'.op = Head(ui_events).type
          /\ lastOp'.arg = Head(ui_events).track_id
          /\ ui_events' = Tail(ui_events)
          /\ \E pf \in BOOLEAN :
               tracks' = handle(Ctl, Head(ui_events), pf).tracks]_vars
  /\ [][lastOp'.op \notin {"new_track", "track_status", "download_done",
                           "log"} =>
          /\ Len(ui_events') >= Len(ui_events)
          /\ SubSeq(ui_events', 1, Len(ui_events)) = ui_events]_vars
  /\ [][(draining /\ ui_events # <<>>) => draining']_vars

\* in one drain an event has been applied, another that a loop enqueued
\* after it is still to come, and a third has been enqueued meanwhile
C14_Witness ==
  /\ draining
  /\ lastOp.op = "background"
  /\ Len(ui_events) >= 2
  /\ ui_events[1].type # ui_events[2].type

\* C17: right after a cleanup pass with a valid current index (here: after
\* play_current has started a track), every file in the temp directory is
\* the local_path of the previous, the current or the next track, and every
\* track whose file is not on disk has no local_path.
C17_CleanupWindow ==
  lastOp.text = "Playing" =>
    LET idx == index_of_current(Ctl) IN
    /\ idx # 0
    /\ \A f \in disk :
         \E i \in 1..Len(tracks) :
           /\ idx - 1 <= i /\ i <= idx + 1
           /\ tracks[i].local_path = f
    /\ \A i \in 1..Len(tracks) :
         tracks[i].local_path # NoPath => tracks[i].local_path \in disk

\* the third track has started; the first one, now outside the window, has
\* lost its file and its local_path in this pass
C17_Witness ==
  /\ lastOp.text = "Playing"
  /\ Len(tracks) = 3
  /\ current_track_id = tracks[3].track_id
  /\ tracks[1].local_path = NoPath
  /\ tracks[1].status = "played"
  /\ lastOp.deleted # {}
  /\ Cardinality(disk) = 2

\* C18: a watchdog tick changes state only when polling is active (a loop
\* has been started and stop() has not been called since), acquisition mode
\* is on, playback is not paused, the debounce interval has passed, the
\* adapter is not playing and the current track is playing; then the track
\* becomes played and next(auto = true) runs; any other tick leaves the
\* queue, the statuses and current_track_id unchanged.
C18_WatchdogConditions ==
  [][lastOp'.op = "watchdog" =>
       LET i == index_of_current(Ctl)
           all == /\ loops["DA"] + loops["DX"] > 0
                  /\ ~stop_event
                  /\ download_mode
                  /\ ~paused
                  /\ ~fresh
                  /\ ~(ready /\ busy /\ ~paused)
                  /\ i # 0
                  /\ tracks[i].status = "playing"
       IN IF all
          THEN /\ tracks'[i].status = "played"
               /\ \E pf \in BOOLEAN :
                    tracks' = next_track(
                      cleanup_temp_window([Ctl EXCEPT !.tracks[i].status = "played"]),
                      TRUE, pf).tracks
          ELSE /\ tracks' = tracks
               /\ current_track_id' = current_track_id]_vars

\* C12: save() followed by load() on a fresh QueueManager yields the same
\* sequence of track ids, the same status for each track and the same
\* current_track_id.
C12_SaveLoadRoundTrip ==
  [][lastOp'.op = "save_load" =>
       /\ Len(tracks') = Len(tracks)
       /\ \A i \in 1..Len(tracks) :
            /\ tracks'[i].track_id = tracks[i].track_id
            /\ tracks'[i].status = tracks[i].status
       /\ current_track_id' = current_track_id]_vars

\* a full queue with a playing track, a downloaded file and a current track
\* that is not the first has been saved and loaded
C12_Witness ==
  /\ lastOp.op = "save_load"
  /\ Len(tracks) = QUEUE_LIMIT
  /\ current_track_id # tracks[1].track_id
  /\ \E i \in 1..Len(tracks) : tracks[i].status = "playing"
  /\ \E i \in 1..Len(tracks) : tracks[i].local_path \in disk

\* C15: a poll cycle whose fetch raises emits exactly one log event and no
\* new_track event, leaves the cursor of every feed unchanged, and puts its
\* thread to sleep without ending any loop; a thread that wakes while the
\* stop flag is clear starts its next cycle.
C15_FailedCycle ==
  [][/\ lastOp'.op = "poll_fail" =>
          /\ Len(ui_events') = Len(ui_events) + 1
          /\ SubSeq(ui_events', 1, Len(ui_events)) = ui_events
          /\ ui_events'[Len(ui_events')].type = "log"
          /\ cursor' = cursor
          /\ Len(threads') = Len(threads)
          /\ \A i \in 1..Len(threads) :
               /\ threads'[i].pc = "exit" => threads[i].pc = "exit"
               /\ threads'[i] # threads[i] => threads'[i].pc = "top"
     /\ (lastOp'.op = "loop_top" /\ ~stop_event) =>
          \A i \in 1..Len(threads) :
            threads'[i] # threads[i] => threads'[i].pc = "fetch"]_vars

\* a loop starts a cycle after a failed one, with a cursor that an earlier
\* cycle had advanced
C15_Witness ==
  /\ lastOp.op = "loop_top"
  /\ lastOp.ret = "fetch"
  /\ cursor[lastOp.arg] > 0
  /\ \E i \in 1..Len(ui_events) :
       ui_events[i].type = "log" /\ ui_events[i].error = lastOp.arg
  /\ Len(threads) = 1

\* C16: a loop that was running when stop() was called exits at its next
\* test of the stop flag and starts no further fetch.
C16_StoppedLoopsExit ==
  [][lastOp'.op = "loop_top" =>
       \A i \in 1..Len(threads) :
         (threads'[i] # threads[i] /\ threads[i].stopped)
           => threads'[i].pc = "exit"]_vars

\* C21: the download worker begins a cycle only while acquisition mode is on
\* and polling is active, that is, a poll loop has been started and stop()
\* has not been called since; and it starts a fetch (StatusUpdate
\* downloading, then the fetcher) only after polling has been started.
C21_WorkerOnlyWhilePolling ==
  [][/\ (wpc = "sleep" /\ wpc' = "scan") =>
          /\ download_mode
          /\ ~stop_event
          /\ loops["DA"] + loops["DX"] > 0
     /\ (wpc = "scan" /\ wpc' = "fetch") =>
          loops["DA"] + loops["DX"] > 0]_vars

\* C22: the targets of a worker cycle are the current track and the one that
\* follows it; a fetch starts only for a target that has no file on disk and
\* whose status is not downloading, playing or paused, and the step that
\* starts it enqueues StatusUpdate(downloading) for the target; the end of
\* the fetch enqueues one outcome event for the same track, DownloadDone
\* with the file written or StatusUpdate(failed) with an error text.
C22_WorkerCycle ==
  [][/\ (wpc = "sleep" /\ wpc' = "scan") =>
          /\ Len(wt') <= 2
          /\ \A k \in 1..Len(wt') :
               wt'[k].track_id \in {current_track_id, next_id(Ctl)}
     /\ (wpc = "scan" /\ wpc' = "fetch") =>
          LET t == target_track(Head(wt)) IN
          /\ ~(t.local_path # NoPath /\ t.local_path \in disk)
          /\ t.status \notin {"downloading", "playing", "paused"}
          /\ ui_events' = Append(ui_events,
               Event("track_status", t.track_id, "downloading", "", NoPath))
     /\ (wpc = "fetch" /\ wpc' # "fetch") =>
          LET id == Head(wt).track_id
              new == SubSeq(ui_events', Len(ui_events) + 1, Len(ui_events'))
              outcome == {k \in 1..Len(new) :
                            new[k].type \in {"download_done", "track_status"}}
          IN /\ SubSeq(ui_events', 1, Len(ui_events)) = ui_events
             /\ Cardinality(outcome) = 1
             /\ \A k \in outcome :
                  /\ new[k].track_id = id
                  /\ k = 1
                  /\ \/ /\ new[k].type = "download_done"
                        /\ new[k].path \in disk'
                     \/ /\ new[k].type = "track_status"
                        /\ new[k].status = "failed"
                        /\ new[k].error # ""
                        /\ disk' = disk]_vars

\* the file of the track after the current one has been fetched: the channel
\* holds its downloading update and then its DownloadDone
C22_Witness ==
  /\ lastOp.op = "background"
  /\ wpc = "scan"
  /\ \E k \in 1..Len(ui_events) - 1 :
       /\ ui_events[k].type = "track_status"
       /\ ui_events[k].status = "downloading"
       /\ ui_events[k + 1].type = "download_done"
       /\ ui_events[k + 1].track_id = ui_events[k].track_id
       /\ ui_events[k].track_id = next_id(Ctl)

\* C23: no step lowers the cursor of a feed; a cycle whose request returned
\* leaves the cursor at the maximum of its value before and the keys of the
\* tracks the cycle emits; and every track emitted has a key above the
\* cursor.
C23_CursorMonotonic ==
  [][/\ \A s \in {"DA", "DX"} : cursor'[s] >= cursor[s]
     /\ lastOp'.op = "poll" =>
          LET s == lastOp'.arg
              new == SubSeq(ui_events', Len(ui_events) + 1, Len(ui_events'))
              keys == {ItemOf(new[k].track_id).key : k \in 1..Len(new)}
          IN /\ cursor'[s] = Max({cursor[s]} \cup keys)
             /\ \A k \in keys : k > cursor[s]]_vars

\* C24: at any time at most one poll loop of each feed is alive.
C24_OneLoopPerFeed ==
  \A s \in {"DA", "DX"} :
    Cardinality({i \in 1..Len(threads) :
                   threads[i].feed = s /\ threads[i].pc # "exit"}) <= 1

\* C25: start() starts no loop for a feed whose token is blank, and one for
\* a feed whose token is not; and a new_track or log event of a feed is
\* enqueued only if the start() called last found the token of that feed
\* not blank.
C25_BlankTokenNoLoop ==
  [][/\ lastOp'.op = "start" =>
          /\ Len(threads') >= Len(threads)
          /\ \A s \in {"DA", "DX"} :
               Cardinality({i \in Len(threads) + 1..Len(threads') :
                              threads'[i].feed = s})
                 = IF token(s) THEN 1 ELSE 0
     /\ (lastOp'.op \in {"poll", "poll_fail"} /\ ui_events' # ui_events) =>
          \E i \in 1..Len(threads) :
            threads[i].feed = lastOp'.arg /\ threads[i].latest]_vars

\* C26: after a handler (next, prev, skip, go_start, a watchdog tick, a
\* drained DownloadDone, start, play_pause) that has started playback or has
\* moved current_track_id to another track, every file in the temp directory
\* is the local_path of the previous, the current or the next track.
C26_CleanupAfterTransition ==
  [][(/\ lastOp'.op \in {"next_track", "prev_track", "skip_track", "go_start",
                         "watchdog", "download_done", "start", "play_pause"}
      /\ \/ lastOp'.text = "Playing"
         \/ /\ current_track_id' # current_track_id
            /\ current_track_id # None) =>
       LET idx == get(tracks', current_track_id') IN
       \A f \in disk' :
         \E i \in 1..Len(tracks') :
           /\ idx - 1 <= i /\ i <= idx + 1
           /\ tracks'[i].local_path = f]_vars

\* C27: in non-acquisition mode, with the adapter idle, playPause on the
\* current track T passes the url of T, and nothing else, to the link
\* opener, marks T played and makes the successor of T the current track
\* when there is one; the adapter does not start, and no track becomes
\* playing or paused.
C27_OpenExternally ==
  [][(/\ lastOp'.op = "play_pause"
      /\ ~download_mode
      /\ ~closing
      /\ ~busy /\ ~paused
      /\ index_of_current(Ctl) # 0) =>
       LET i == index_of_current(Ctl) IN
       /\ lastOp'.opened = <<tracks[i].url>>
       /\ Len(tracks') = Len(tracks)
       /\ tracks'[i].status = "played"
       /\ current_track_id' = IF i < Len(tracks) THEN tracks[i + 1].track_id
                              ELSE current_track_id
       /\ busy' = busy
       /\ \A j \in 1..Len(tracks) :
            tracks'[j].status \in {"playing", "paused"} =>
              tracks'[j].status = tracks[j].status]_vars

\* C28: in acquisition mode playPause leaves current_track_id as it is; when
\* the adapter is playing it pauses it and the current track becomes paused;
\* when the adapter is paused it resumes it and the track becomes playing;
\* when the adapter is idle, the mixer is ready and the file of the current
\* track is on disk, it starts playback of that track (or marks it failed
\* when the mixer cannot load the file).  So a second playPause right after
\* one that paused a playing track makes that track playing again.
C28_PlayPauseToggle ==
  [][(/\ lastOp'.op = "play_pause"
      /\ download_mode
      /\ ~closing
      /\ index_of_current(Ctl) # 0) =>
       LET i == index_of_current(Ctl) IN
       /\ current_track_id' = current_track_id
       /\ Len(tracks') = Len(tracks)
       /\ IF ready /\ busy /\ ~paused
          THEN /\ paused' /\ busy'
               /\ tracks'[i].status = "paused"
          ELSE IF paused
          THEN /\ ~paused' /\ busy' = busy
               /\ tracks'[i].status = "playing"
          ELSE (ready /\ exists(Ctl, tracks[i].local_path)) =>
                 \/ /\ busy' /\ ~paused'
                    /\ tracks'[i].status = "playing"
                 \/ /\ ~busy' /\ ~paused'
                    /\ tracks'[i].status = "failed"
       /\ (/\ lastOp.op = "play_pause"
           /\ paused
           /\ tracks[i].status = "paused") =>
            /\ tracks'[i].status = "playing"
            /\ ready /\ busy' /\ ~paused']_vars

\* a playing track has been paused by one playPause and is playing again
\* after the next
C28_Witness ==
  /\ lastOp.op = "play_pause"
  /\ commands = 3
  /\ lastOp.text = ""
  /\ busy /\ ~paused
  /\ current_track_id = "DX:4"
  /\ tracks[2].status = "playing"

\* C29: prev() on a current track that has a predecessor stops playback,
\* makes the predecessor the current track and plays it when its file is
\* there, and leaves the track that was current neither playing nor paused;
\* on the first track prev() changes nothing.
C29_PrevTrack ==
  [][(lastOp'.op = "prev_track" /\ ~closing /\ index_of_current(Ctl) # 0) =>
       LET i == index_of_current(Ctl) IN
       IF i = 1
       THEN /\ tracks' = tracks
            /\ current_track_id' = current_track_id
            /\ busy' = busy /\ paused' = paused
            /\ disk' = disk
       ELSE /\ Len(tracks') = Len(tracks)
            /\ current_track_id' = tracks[i - 1].track_id
            /\ ~paused'
            /\ (download_mode /\ ready
                /\ exists(Ctl, tracks[i - 1].local_path)) =>
                 \/ busy' /\ tracks'[i - 1].status = "playing"
                 \/ ~busy' /\ tracks'[i - 1].status = "failed"
            /\ tracks'[i].status \notin {"playing", "paused"}]_vars

\* C30: a track becomes playing only in a handler of the controller, and
\* only while the file of its local_path is on disk; and playPause in
\* acquisition mode, with the mixer ready, on a current track whose file is
\* not on disk starts no playback and leaves the track queued.
C30_PlayingNeedsArtifact ==
  [][/\ \A i \in 1..Len(tracks) :
          LET j == get(tracks', tracks[i].track_id) IN
          (/\ j # 0
           /\ tracks'[j].status = "playing"
           /\ tracks[i].status # "playing") =>
            /\ lastOp'.op # "background"
            /\ tracks'[j].local_path # NoPath
            /\ tracks'[j].local_path \in disk
     /\ (/\ lastOp'.op = "play_pause"
         /\ download_mode /\ ~closing /\ ready
         /\ index_of_current(Ctl) # 0
         /\ ~exists(Ctl, tracks[index_of_current(Ctl)].local_path)) =>
          /\ ~(busy' /\ ~busy)
          /\ tracks'[index_of_current(Ctl)].status = "queued"]_vars

\* C31: when the adapter raises while playPause starts the current track
\* (adapter idle, mixer ready, file on disk), the track becomes failed with
\* the error text, current_track_id, every other track and the files stay
\* as they are, and the controller is not closed; and in any handler a
\* track that gets the error text of a failed start is failed and is the
\* current track when the handler returns.
C31_PlaybackFailure ==
  [][/\ (/\ lastOp'.op = "play_pause"
         /\ download_mode /\ ~closing /\ ready
         /\ ~busy /\ ~paused
         /\ index_of_current(Ctl) # 0
         /\ exists(Ctl, tracks[index_of_current(Ctl)].local_path)
         /\ ~busy') =>
          LET i == index_of_current(Ctl) IN
          /\ tracks' = [tracks EXCEPT ![i].status = "failed",
                                      ![i].error = "play error"]
          /\ current_track_id' = current_track_id
          /\ disk' = disk
          /\ ~paused'
          /\ closing' = closing
     /\ \A i \in 1..Len(tracks) :
          LET j == get(tracks', tracks[i].track_id) IN
          (/\ j # 0
           /\ tracks'[j].error = "play error"
           /\ tracks[i].error # "play error") =>
            /\ tracks'[j].status = "failed"
            /\ tracks'[j].track_id = current_track_id'
            /\ ~busy']_vars

\* the start of DX:4 has failed, and the controller has since handled
\* another command
C31_Witness ==
  /\ lastOp.op = "set_current_by_id"
  /\ \E i \in 1..Len(tracks) :
       /\ tracks[i].status = "failed"
       /\ tracks[i].error = "play error"
       /\ tracks[i].local_path \in disk
  /\ \E i \in 1..Len(tracks) : tracks[i].status = "queued"

\* C32: draining a StatusUpdate or a DownloadDone whose id names no track of
\* the queue changes no track, not current_track_id, no file and nothing of
\* the adapter; the event is removed and the drain goes on.
C32_AbsentTrackIgnored ==
  [][(/\ lastOp'.op \in {"track_status", "download_done"}
      /\ lastOp'.arg \notin Ids(tracks)) =>
       /\ tracks' = tracks
       /\ current_track_id' = current_track_id
       /\ disk' = disk
       /\ busy' = busy /\ paused' = paused
       /\ ui_events' = Tail(ui_events)
       /\ draining']_vars

\* the DownloadDone of a track that clear_queue removed has been drained
\* while another track is queued and further events wait
C32_Witness ==
  /\ lastOp.op = "download_done"
  /\ lastOp.arg \notin Ids(tracks)
  /\ tracks # <<>>
  /\ ui_events # <<>>

\* C33: draining NewTrack gives the queue what append_if_new gives; an
\* accepted track becomes current when no current track was set, and leaves
\* current_track_id as it was when one was set, whether the track is older
\* or newer than the current one; a rejected NewTrack changes nothing and
\* does not mark the drain for a save.
C33_NewTrack ==
  [][lastOp'.op = "new_track" =>
       LET t == Track(ItemOf(lastOp'.arg))
           r == append_if_new(Ctl, t)
       IN /\ lastOp'.ret = (IF r.ret THEN "true" ELSE "false")
          /\ tracks' = r.c.tracks
          /\ disk' = r.c.disk
          /\ (r.ret /\ current_track_id = None) =>
               /\ current_track_id' = t.track_id
               /\ dirty'
          /\ (r.ret /\ current_track_id # None) =>
               /\ current_track_id' = current_track_id
               /\ dirty'
          /\ ~r.ret =>
               /\ tracks' = tracks
               /\ current_track_id' = current_track_id
               /\ disk' = disk
               /\ busy' = busy /\ paused' = paused
               /\ dirty' = dirty]_vars

\* a track older than the current one has been accepted and the current
\* track is still the newer one
C33_Witness ==
  /\ lastOp.op = "new_track"
  /\ lastOp.ret = "true"
  /\ current_track_id # None
  /\ current_track_id # lastOp.arg
  /\ lastOp.arg \in Ids(tracks)
  /\ ItemOf(lastOp.arg).created_ts < ItemOf(current_track_id).created_ts

\* a track newer than the current one has been accepted
C33_WitnessNewer ==
  /\ lastOp.op = "new_track"
  /\ lastOp.ret = "true"
  /\ current_track_id # lastOp.arg
  /\ lastOp.arg \in Ids(tracks)
  /\ ItemOf(lastOp.arg).created_ts > ItemOf(current_track_id).created_ts

\* a NewTrack has been rejected in a drain that has nothing to save
C33_WitnessRejected ==
  /\ lastOp.op = "new_track"
  /\ lastOp.ret = "false"
  /\ ~dirty
  /\ tracks # <<>>

\* C34: clear() deletes the file of every track that has one and no other
\* file, empties the queue and sets current_track_id to null; after the
\* controller's clear_queue the queue is empty, current_track_id is null,
\* the files of the tracks are gone and the mixer plays nothing.
C34_Clear ==
  [][lastOp'.op \in {"clear", "clear_queue"} =>
       /\ tracks' = <<>>
       /\ current_track_id' = None
       /\ disk' = disk \ {tracks[i].local_path : i \in 1..Len(tracks)}
       /\ lastOp'.op = "clear_queue" =>
            /\ ~busy' /\ ~paused'
            /\ ~is_playing([Ctl EXCEPT !.busy = busy', !.paused = paused'])
            /\ lastOp'.text = "Queue cleared"]_vars

\* clear_queue has removed the tracks of the queue and deleted a file
C34_Witness ==
  /\ lastOp.op = "clear_queue"
  /\ lastOp.deleted # {}
  /\ lastOp.removed # {}
  /\ tracks = <<>> /\ current_track_id = None /\ ~busy

\* QueueManager.clear has been called on a queue of two tracks with files
C34_WitnessClear ==
  /\ lastOp.op = "clear"
  /\ Cardinality(lastOp.removed) = 2
  /\ lastOp.deleted # {}

\* C35: load() raises nothing; with no file, or a file that is not JSON, it
\* leaves the empty queue and a null current pointer; entries that are not
\* tracks are dropped and every well-formed entry is kept, the list sorted
\* and the current pointer null on an empty queue and the id of a track
\* otherwise; a save, failed or not, leaves the queue and the pointer alone
\* and raises nothing.
C35_LoadNeverFails ==
  [][/\ lastOp'.op = "load_file" =>
          LET file == lastOp'.arg
              WellFormed(raw) == constructible(raw)
                                   /\ raw.created_ts # NotNumber
          IN /\ lastOp'.ret = ""
             /\ file.kind \in {"missing", "not json"} =>
                  tracks' = <<>> /\ current_track_id' = None
             /\ Ids(tracks') =
                  {file.tracks[i].track_id :
                     i \in {k \in 1..Len(file.tracks) :
                              WellFormed(file.tracks[k])}}
             /\ \A i \in 1..Len(tracks') - 1 :
                  tracks'[i].created_ts <= tracks'[i + 1].created_ts
             /\ IF tracks' = <<>> THEN current_track_id' = None
                ELSE current_track_id' \in Ids(tracks')
     /\ lastOp'.op = "save" =>
          tracks' = tracks /\ current_track_id' = current_track_id]_vars

\* C36: when the DownloadDone of a track of the queue is drained, the file
\* the download worker wrote for it is still in the temp directory, and the
\* local_path the event gives the track names a file that exists.
C36_ArtifactSurvivesUntilDrain ==
  [][(/\ lastOp'.op = "download_done"
      /\ lastOp'.arg \in Ids(tracks)) =>
       LET ev == Head(ui_events)
           j == get(tracks', ev.track_id)
       IN /\ ev.path \in disk
          /\ j # 0 => tracks'[j].local_path \in disk' \cup {NoPath}]_vars

\* C37: at most one track is playing or paused, and such a track is the
\* current track.
C37_OnePlayingTrack ==
  \A i, j \in 1..Len(tracks) :
    (/\ tracks[i].status \in {"playing", "paused"}
     /\ tracks[j].status \in {"playing", "paused"}) =>
      /\ i = j
      /\ tracks[i].track_id = current_track_id

\* C38: when append_if_new(track) has returned true, called directly or by
\* the drain of a NewTrack, the track is in the queue.
C38_AcceptedIsKept ==
  (/\ lastOp.op \in {"append_if_new", "new_track"}
   /\ lastOp.ret = "true") => lastOp.arg \in Ids(tracks)

\* C40: the download loop starts no fetch of a track while the DownloadDone
\* of an earlier fetch of that track waits in the channel and the file that
\* fetch wrote is on disk.
C40_NoSecondFetch ==
  [][(wpc = "scan" /\ wpc' = "fetch") =>
       ~\E k \in 1..Len(ui_events) :
          /\ ui_events[k].type = "download_done"
          /\ ui_events[k].track_id = Head(wt).track_id
          /\ ui_events[k].path \in disk]_vars

\* C39: with polling on, the mixer ready, fair timers and worker, every
\* download succeeding, every stream ending and no user command, a track
\* accepted at a position after the current track is playing at some later
\* moment.
C39_AcceptedEventuallyPlays ==
  \A id \in AllIds :
    (/\ lastOp.op = "new_track"
     /\ lastOp.ret = "true"
     /\ lastOp.arg = id
     /\ get(tracks, id) > index_of_current(Ctl)
     /\ index_of_current(Ctl) # 0)
      ~> (/\ get(tracks, id) # 0
          /\ tracks[get(tracks, id)].status = "playing")

====
